---- MODULE Spec2Model ----
(***************************************************************************)
(* c8y-session-1password: the root command (cmd/root.go) as a state        *)
(* machine.  Two surfaces are modelled: the persistent Chrome native       *)
(* messaging loop (runNativeMessaging) over the byte streams stdin/stdout, *)
(* and the one-shot selection of rootCmd.RunE.                             *)
(*                                                                         *)
(* Strings are sequences of byte values (ASCII codes).  A byte stream is a *)
(* byte sequence with its runs of tabs run-length encoded, so that a body  *)
(* of 1 MiB is one small value.                                            *)
(***************************************************************************)
EXTENDS Integers, Sequences, FiniteSets, TLC

(***************************************************************************)
(* Bounds of the model.                                                    *)
(***************************************************************************)
\* frames the peer puts on stdin ahead of the last part of its stream
MaxFrames == 1
\* sessions in one batch returned by Client.List
MaxSessions == 2
\* bytes the child process of handleAuthTest may take from stdin
MaxChildRead == 1
\* URL sources of one item given to MapToSessions
MaxURLs == 2
\* fields of one item given to collectURLs
MaxFields == 2
\* bytes behind the scheme of a locator given to ParseOPURI
MaxPath == 5

(***************************************************************************)
(* Byte streams.  A stream is a sequence of integers: an element b >= 0 is *)
(* the byte b, an element -n < 0 stands for n consecutive tab bytes (9).   *)
(* In canonical form no element is 9 and no two neighbours are negative,   *)
(* so equal byte sequences are equal streams.                              *)
(***************************************************************************)
Min(S) == CHOOSE x \in S : \A y \in S : x <= y

\* positions of the runs of a stream
Runs(s) == {i \in 1..Len(s) : s[i] < 0}

\* positions of the runs among the first k elements of a stream
RunsWithin(s, k) == {i \in 1..(IF k < Len(s) THEN k ELSE Len(s)) : s[i] < 0}

RECURSIVE RunBytes(_, _)
RunBytes(s, P) ==
    IF P = {} THEN 0
    ELSE LET p == Min(P) IN (-s[p]) - 1 + RunBytes(s, P \ {p})

\* number of bytes of a stream
StreamLen(s) == Len(s) + RunBytes(s, Runs(s))

\* concatenation
Cat(s, t) ==
    IF s # <<>> /\ t # <<>> /\ s[Len(s)] < 0 /\ t[1] < 0
    THEN SubSeq(s, 1, Len(s) - 1) \o <<s[Len(s)] + t[1]>> \o SubSeq(t, 2, Len(t))
    ELSE s \o t

RECURSIVE PushBytes(_, _, _)
PushBytes(s, bs, i) ==
    IF i > Len(bs) THEN s
    ELSE PushBytes(Cat(s, IF bs[i] = 9 THEN <<-1>> ELSE <<bs[i]>>), bs, i + 1)

\* the stream holding exactly the bytes bs
FromBytes(bs) ==
    IF \A i \in 1..Len(bs) : bs[i] # 9 THEN bs ELSE PushBytes(<<>>, bs, 1)

\* the first k bytes of a stream (all of it when it is shorter)
RECURSIVE Take(_, _)
Take(s, k) ==
    IF k <= 0 \/ s = <<>> THEN <<>>
    ELSE IF RunsWithin(s, k) = {}
    THEN SubSeq(s, 1, IF k < Len(s) THEN k ELSE Len(s))
    ELSE LET p == Min(RunsWithin(s, k))
             n == -s[p]
             rem == k - (p - 1)
         IN  IF rem <= n THEN SubSeq(s, 1, p - 1) \o <<-rem>>
             ELSE SubSeq(s, 1, p) \o Take(SubSeq(s, p + 1, Len(s)), rem - n)

\* a stream without its first k bytes
RECURSIVE Drop(_, _)
Drop(s, k) ==
    IF k <= 0 \/ s = <<>> THEN s
    ELSE IF RunsWithin(s, k) = {}
    THEN SubSeq(s, k + 1, Len(s))
    ELSE LET p == Min(RunsWithin(s, k))
             n == -s[p]
             rem == k - (p - 1)
         IN  IF rem < n THEN <<-(n - rem)>> \o SubSeq(s, p + 1, Len(s))
             ELSE Drop(SubSeq(s, p + 1, Len(s)), rem - n)

\* byte i of a stream
ByteAt(s, i) == LET e == Take(Drop(s, i - 1), 1)[1] IN IF e < 0 THEN 9 ELSE e

\* the bytes of a (short) stream, one element per byte
ToBytes(s) == [i \in 1..StreamLen(s) |-> ByteAt(s, i)]

\* a read that reports every short read as a clean end of the stream
ReadFullShortIsEOF(s, k) ==
    LET got == Take(s, k)
        n   == StreamLen(got)
    IN  [buf |-> got, n |-> n, rest |-> Drop(s, k),
         err |-> IF n = k THEN "nil" ELSE "EOF"]

\* io.ReadFull(os.Stdin, buf) with len(buf) = k on a stream that ends after
\* its last byte: the bytes obtained, what is left, and the error
ReadFull(s, k) ==
    LET got == Take(s, k)
        n   == StreamLen(got)
    IN  [buf  |-> got,
         n    |-> n,
         rest |-> Drop(s, k),
         err  |-> IF n = k THEN "nil"
                  ELSE IF n = 0 THEN "EOF" ELSE "ErrUnexpectedEOF"]

\* binary.LittleEndian.Uint32 (the bytes of the model are ASCII, so the
\* value stays below 2^31)
Uint32(b) == b[1] + 256 * b[2] + 65536 * b[3] + 16777216 * b[4]

\* the four low bytes of v, highest first
PutUint32BigEndian(v) ==
    <<(v \div 16777216) % 256, (v \div 65536) % 256, (v \div 256) % 256, v % 256>>

\* binary.LittleEndian.PutUint32: the four low bytes of v
PutUint32(v) ==
    <<v % 256, (v \div 256) % 256, (v \div 65536) % 256, (v \div 16777216) % 256>>

\* the sanity bound of runNativeMessaging: 1024*1024
MaxMessageLength == 1048576

(***************************************************************************)
(* Strings.  Every string is the sequence of its bytes.                    *)
(***************************************************************************)
\* JSON member names of CumulocitySession and of the reply envelopes
K_sessionUri == <<115, 101, 115, 115, 105, 111, 110, 85, 114, 105>>
K_name == <<110, 97, 109, 101>>
K_host == <<104, 111, 115, 116>>
K_username == <<117, 115, 101, 114, 110, 97, 109, 101>>
K_password == <<112, 97, 115, 115, 119, 111, 114, 100>>
K_tenant == <<116, 101, 110, 97, 110, 116>>
K_totp == <<116, 111, 116, 112>>
K_totpSecret == <<116, 111, 116, 112, 83, 101, 99, 114, 101, 116>>
K_itemId == <<105, 116, 101, 109, 73, 100>>
K_itemName == <<105, 116, 101, 109, 78, 97, 109, 101>>
K_vaultId == <<118, 97, 117, 108, 116, 73, 100>>
K_vaultName == <<118, 97, 117, 108, 116, 78, 97, 109, 101>>
K_tags == <<116, 97, 103, 115>>
K_type == <<116, 121, 112, 101>>
K_error == <<101, 114, 114, 111, 114>>
K_success == <<115, 117, 99, 99, 101, 115, 115>>

\* the placeholder of a masked secret
Mask == <<42, 42, 42>>
\* values of the "type" member
T_error == <<101, 114, 114, 111, 114>>
T_auth_result == <<97, 117, 116, 104, 95, 114, 101, 115, 117, 108, 116>>
T_test_auth == <<116, 101, 115, 116, 95, 97, 117, 116, 104>>
\* the fallback tag
S_c8y == <<99, 56, 121>>

\* request texts the peer sends
\* {}
RT_empty == <<123, 125>>
\* {"type":"test_auth"}
RT_test_auth == <<123, 34, 116, 121, 112, 101, 34, 58, 34, 116, 101, 115, 116, 95, 97, 117, 116, 104, 34, 125>>
\* {"search":"a","reveal":true}
RT_search_reveal == <<123, 34, 115, 101, 97, 114, 99, 104, 34, 58, 34, 97, 34, 44, 34, 114, 101, 118, 101, 97, 108, 34, 58, 116, 114, 117, 101, 125>>
\* {not json
RT_not_json == <<123, 110, 111, 116, 32, 106, 115, 111, 110>>

\* error texts
\* what json.Unmarshal reports for {not json
E_not_json == <<105, 110, 118, 97, 108, 105, 100, 32, 99, 104, 97, 114, 97, 99, 116, 101, 114, 32, 39, 110, 39, 32, 108, 111, 111, 107, 105, 110, 103, 32, 102, 111, 114, 32, 98, 101, 103, 105, 110, 110, 105, 110, 103, 32, 111, 102, 32, 111, 98, 106, 101, 99, 116, 32, 107, 101, 121, 32, 115, 116, 114, 105, 110, 103>>
\* what json.Unmarshal reports for any other text of the model
E_syntax == <<105, 110, 118, 97, 108, 105, 100, 32, 99, 104, 97, 114, 97, 99, 116, 101, 114>>
E_InvalidJSON == <<73, 110, 118, 97, 108, 105, 100, 32, 74, 83, 79, 78, 58, 32>>
E_no_filter == <<110, 111, 32, 115, 101, 115, 115, 105, 111, 110, 115, 32, 102, 111, 117, 110, 100, 32, 109, 97, 116, 99, 104, 105, 110, 103, 32, 102, 105, 108, 116, 101, 114, 58, 32>>
E_no_vaults == <<110, 111, 32, 115, 101, 115, 115, 105, 111, 110, 115, 32, 102, 111, 117, 110, 100, 32, 109, 97, 116, 99, 104, 105, 110, 103, 32, 118, 97, 117, 108, 116, 115, 58, 32>>
E_and_tags == <<32, 97, 110, 100, 32, 116, 97, 103, 115, 58, 32>>
E_not_signed_in == <<110, 111, 116, 32, 115, 105, 103, 110, 101, 100, 32, 105, 110, 32, 116, 111, 32, 49, 80, 97, 115, 115, 119, 111, 114, 100, 46, 32, 80, 108, 101, 97, 115, 101, 32, 114, 117, 110, 32, 39, 111, 112, 32, 115, 105, 103, 110, 105, 110, 39, 32, 102, 105, 114, 115, 116>>
E_exit_status == <<101, 120, 105, 116, 32, 115, 116, 97, 116, 117, 115, 32, 49>>
E_write_length == <<102, 97, 105, 108, 101, 100, 32, 116, 111, 32, 119, 114, 105, 116, 101, 32, 108, 101, 110, 103, 116, 104, 32, 112, 114, 101, 102, 105, 120, 58, 32>>
E_write_json == <<102, 97, 105, 108, 101, 100, 32, 116, 111, 32, 119, 114, 105, 116, 101, 32, 74, 83, 79, 78, 32, 100, 97, 116, 97, 58, 32>>
\* the text of a failed os.Stdout.Write
E_io == <<119, 114, 105, 116, 101, 32, 47, 100, 101, 118, 47, 115, 116, 100, 111, 117, 116, 58, 32, 105, 110, 112, 117, 116, 47, 111, 117, 116, 112, 117, 116, 32, 101, 114, 114, 111, 114>>

\* field values of the sessions of the model
S_a == <<97>>
S_A == <<65>>
S_B == <<66>>
S_p == <<112>>
S_q == <<113>>
S_s == <<74, 66, 83, 87, 89, 51, 68, 80>>
S_u == <<117>>
S_t == <<116, 49>>
S_hostA == <<97, 46, 105, 111>>
S_hostB == <<98, 46, 105, 111>>
S_i1 == <<105, 49>>
S_i2 == <<105, 50>>
S_v1 == <<118, 49>>
S_V == <<86>>
S_uri1 == <<111, 112, 58, 47, 47, 118, 49, 47, 105, 49>>
S_uri2 == <<111, 112, 58, 47, 47, 118, 49, 47, 105, 50>>
S_code1 == <<49, 49, 49, 49, 49, 49>>
S_code2 == <<50, 50, 50, 50, 50, 50>>

(***************************************************************************)
(* String helpers (package strings).                                       *)
(***************************************************************************)
RECURSIVE Join(_, _)
Join(ss, sep) ==
    IF ss = <<>> THEN <<>>
    ELSE IF Len(ss) = 1 THEN ss[1]
    ELSE ss[1] \o sep \o Join(Tail(ss), sep)

\* strings.ToLower on ASCII text
ToLower(s) == [i \in 1..Len(s) |-> IF s[i] >= 65 /\ s[i] <= 90 THEN s[i] + 32 ELSE s[i]]

\* strings.Contains
Contains(s, sub) ==
    \E i \in 0..(Len(s) - Len(sub)) : SubSeq(s, i + 1, i + Len(sub)) = sub

(***************************************************************************)
(* encoding/json.                                                          *)
(***************************************************************************)
\* the body of a JSON string: quote and backslash are escaped (the other
\* escapes of encoding/json concern bytes no string of the model contains)
RECURSIVE EscapeFrom(_, _)
EscapeFrom(s, i) ==
    IF i > Len(s) THEN <<>>
    ELSE (IF s[i] = 34 \/ s[i] = 92 THEN <<92, s[i]>> ELSE <<s[i]>>)
         \o EscapeFrom(s, i + 1)

Escape(s) ==
    IF \A i \in 1..Len(s) : s[i] # 34 /\ s[i] # 92 THEN s ELSE EscapeFrom(s, 1)

Quote(s) == <<34>> \o Escape(s) \o <<34>>

\* "key":value
Member(k, v) == Quote(k) \o <<58>> \o v

\* {members}, members given as encoded "key":value texts
Object(members) == <<123>> \o Join(members, <<44>>) \o <<125>>

\* [elements]
Array(elems) == <<91>> \o Join(elems, <<44>>) \o <<93>>

QuoteAll(ss) == [i \in 1..Len(ss) |-> Quote(ss[i])]

\* the string members of a CumulocitySession in declaration order; every
\* member is tagged omitempty
StringFields(s) ==
    << <<K_sessionUri, s.SessionURI>>, <<K_name, s.Name>>, <<K_host, s.Host>>,
       <<K_username, s.Username>>, <<K_password, s.Password>>,
       <<K_tenant, s.Tenant>>, <<K_totp, s.TOTP>>,
       <<K_totpSecret, s.TOTPSecret>>, <<K_itemId, s.ItemID>>,
       <<K_itemName, s.ItemName>>, <<K_vaultId, s.VaultID>>,
       <<K_vaultName, s.VaultName>> >>

NonEmptyField(kv) == kv[2] # <<>>

PresentFields(s) == SelectSeq(StringFields(s), NonEmptyField)

\* json.Marshal of a *CumulocitySession
MarshalSession(s) ==
    LET fs == PresentFields(s)
        ms == [i \in 1..Len(fs) |-> Member(fs[i][1], Quote(fs[i][2]))]
        ts == IF s.Tags = <<>> THEN <<>>
              ELSE <<Member(K_tags, Array(QuoteAll(s.Tags)))>>
    IN  Object(ms \o ts)

\* an encoder of a session list that stops after the first session
MarshalSessionsFirstOnly(ss) ==
    IF ss = <<>> THEN <<110, 117, 108, 108>>
    ELSE Array(<<MarshalSession(ss[1])>>)

\* json.Marshal of a []*CumulocitySession (a nil slice encodes as null)
MarshalSessions(ss) ==
    IF ss = <<>> THEN <<110, 117, 108, 108>>
    ELSE Array([i \in 1..Len(ss) |-> MarshalSession(ss[i])])

\* json.MarshalIndent(&session, "", "  ")
MarshalIndentSession(s) ==
    LET fs == PresentFields(s)
        ms == [i \in 1..Len(fs) |-> Quote(fs[i][1]) \o <<58, 32>> \o Quote(fs[i][2])]
        ts == IF s.Tags = <<>> THEN <<>>
              ELSE << Quote(K_tags) \o <<58, 32, 91, 10, 32, 32, 32, 32>>
                      \o Join(QuoteAll(s.Tags), <<44, 10, 32, 32, 32, 32>>)
                      \o <<10, 32, 32, 93>> >>
        all == ms \o ts
    IN  IF all = <<>> THEN <<123, 125>>
        ELSE <<123, 10, 32, 32>> \o Join(all, <<44, 10, 32, 32>>) \o <<10, 125>>

\* json.Marshal of map[string]interface{}{"type": "error", "error": msg}:
\* the keys of a map are written in sorted order
MarshalError(msg) ==
    Object(<<Member(K_error, Quote(msg)), Member(K_type, Quote(T_error))>>)

\* json.Marshal of the auth_result map of handleAuthTest
MarshalAuthResult(success, msg) ==
    IF success
    THEN Object(<<Member(K_success, <<116, 114, 117, 101>>),
                  Member(K_type, Quote(T_auth_result))>>)
    ELSE Object(<<Member(K_error, Quote(msg)),
                  Member(K_success, <<102, 97, 108, 115, 101>>),
                  Member(K_type, Quote(T_auth_result))>>)

\* fmt's %v of a []string
FormatSlice(ss) == <<91>> \o Join(ss, <<32>>) \o <<93>>

(***************************************************************************)
(* Requests.                                                               *)
(***************************************************************************)
\* the zero NativeMessagingRequest
ZeroRequest ==
    [Type |-> <<>>, Vaults |-> <<>>, Tags |-> <<>>, Search |-> <<>>, Reveal |-> FALSE]

IsSpace(b) == b \in {9, 10, 13, 32}

\* an element of a stream that is JSON white space
IsWhite(e) == e < 0 \/ IsSpace(e)

RECURSIVE TrimLeft(_)
TrimLeft(s) == IF s # <<>> /\ IsWhite(s[1]) THEN TrimLeft(SubSeq(s, 2, Len(s))) ELSE s

RECURSIVE TrimRight(_)
TrimRight(s) ==
    IF s # <<>> /\ IsWhite(s[Len(s)]) THEN TrimRight(SubSeq(s, 1, Len(s) - 1)) ELSE s

\* json.Unmarshal(messageBytes, &req) on the texts the peer of the model
\* sends: JSON white space around the value is skipped, a known request text
\* fills the request, every other text is an error
Unmarshal(body) ==
    LET t == TrimRight(TrimLeft(body))
    IN  CASE t = FromBytes(RT_empty) -> [err |-> <<>>, req |-> ZeroRequest]
          [] t = FromBytes(RT_test_auth) ->
                [err |-> <<>>, req |-> [ZeroRequest EXCEPT !.Type = T_test_auth]]
          [] t = FromBytes(RT_search_reveal) ->
                [err |-> <<>>,
                 req |-> [ZeroRequest EXCEPT !.Search = S_a, !.Reveal = TRUE]]
          [] t = FromBytes(RT_not_json) -> [err |-> E_not_json, req |-> ZeroRequest]
          [] OTHER -> [err |-> E_syntax, req |-> ZeroRequest]

(***************************************************************************)
(* Sessions.                                                               *)
(***************************************************************************)
\* the sessions Client.List synthesizes from two login items of the vault
SessionA(pw, secret) ==
    [SessionURI |-> S_uri1, Name |-> S_A, Host |-> S_hostA, Username |-> S_u,
     Password |-> pw, Tenant |-> S_t, TOTP |-> <<>>, TOTPSecret |-> secret,
     ItemID |-> S_i1, ItemName |-> S_A, VaultID |-> S_v1, VaultName |-> S_V,
     Tags |-> <<S_c8y>>]

SessionB(pw, secret) ==
    [SessionURI |-> S_uri2, Name |-> S_B, Host |-> S_hostB, Username |-> S_u,
     Password |-> pw, Tenant |-> <<>>, TOTP |-> <<>>, TOTPSecret |-> secret,
     ItemID |-> S_i2, ItemName |-> S_B, VaultID |-> S_v1, VaultName |-> S_V,
     Tags |-> <<S_c8y>>]

SessionPool == {SessionA(S_p, S_s), SessionB(S_q, <<>>)}

\* sessions of one item carry the secrets of that item
SameItemSameSecrets(b) ==
    \A i, j \in 1..Len(b) :
        b[i].ItemID = b[j].ItemID =>
            b[i].Password = b[j].Password /\ b[i].TOTPSecret = b[j].TOTPSecret

\* what the vault backend holds: the batch a successful Client.List returns
Backends ==
    {b \in UNION {[1..n -> SessionPool] : n \in 0..MaxSessions} :
        SameItemSameSecrets(b)}

\* base32 alphabet of a TOTP secret (totp.GenerateCode rejects other text)
ValidSecret(secret) ==
    \A i \in 1..Len(secret) :
        (secret[i] >= 65 /\ secret[i] <= 90) \/ (secret[i] >= 50 /\ secret[i] <= 55)

\* GetTOTPCodeFromSecret: the code depends on the time of the call
TOTPOutcomes(secret) ==
    IF ValidSecret(secret)
    THEN {[ok |-> TRUE, code |-> c] : c \in {S_code1, S_code2}}
    ELSE {[ok |-> FALSE, code |-> <<>>]}

\* populateTOTP(session) on the session at heap address a
populateTOTP(h, a, t) ==
    IF h[a].TOTPSecret # <<>> /\ t.ok
    THEN [h EXCEPT ![a].TOTP = t.code]
    ELSE h

\* index in all of the first session with the item id of the target, 0 if none
RECURSIVE FirstSameItem(_, _, _, _)
FirstSameItem(h, a, all, i) ==
    IF i > Len(all) THEN 0
    ELSE IF h[a].ItemID = h[all[i]].ItemID THEN i
    ELSE FirstSameItem(h, a, all, i + 1)

\* populateSessionFromList(targetSession, allSessions): sessions are
\* pointers, here addresses into the heap h
populateSessionFromList(h, a, all, t) ==
    LET i == FirstSameItem(h, a, all, 1)
    IN  IF i = 0 THEN h
        ELSE populateTOTP([h EXCEPT ![a].Password = h[all[i]].Password], a, t)

\* the loop of processNativeMessagingRequest over filteredSessions
RECURSIVE PopulateAll(_, _, _, _, _)
PopulateAll(h, targets, all, ts, i) ==
    IF i > Len(targets) THEN h
    ELSE PopulateAll(populateSessionFromList(h, targets[i], all, ts[i]),
                     targets, all, ts, i + 1)

\* a filter that also looks at the username
FilterSessionsWithUsername(h, sessions, filter) ==
    IF filter = <<>> THEN sessions
    ELSE LET f == ToLower(filter)
             Matches(a) ==
                 \/ Contains(ToLower(h[a].Name), f)
                 \/ Contains(ToLower(h[a].ItemName), f)
                 \/ Contains(ToLower(h[a].Host), f)
                 \/ Contains(ToLower(h[a].Username), f)
         IN  SelectSeq(sessions, Matches)

\* FilterSessions(sessions, filter) over addresses
FilterSessions(h, sessions, filter) ==
    IF filter = <<>> THEN sessions
    ELSE LET f == ToLower(filter)
             Matches(a) ==
                 \/ Contains(ToLower(h[a].Name), f)
                 \/ Contains(ToLower(h[a].ItemName), f)
                 \/ Contains(ToLower(h[a].Host), f)
         IN  SelectSeq(sessions, Matches)

\* a reveal step that hides the password only
applyRevealFlagPasswordOnly(h, a, reveal) ==
    LET s == h[a]
        masked == [s EXCEPT !.Password = IF @ # <<>> THEN Mask ELSE @]
    IN  [heap |-> h, out |-> IF reveal THEN s ELSE masked]

\* a reveal step that masks the session itself instead of a copy
applyRevealFlagInPlace(h, a, reveal) ==
    LET s == h[a]
        masked == [s EXCEPT
                     !.Password = IF @ # <<>> THEN Mask ELSE @,
                     !.TOTP = IF @ # <<>> THEN Mask ELSE @,
                     !.TOTPSecret = IF @ # <<>> THEN Mask ELSE @]
    IN  [heap |-> IF reveal THEN h ELSE [h EXCEPT ![a] = masked],
         out |-> IF reveal THEN s ELSE masked]

\* applyRevealFlag(session, reveal): the heap after the call and the copy
\* it returns
applyRevealFlag(h, a, reveal) ==
    LET s == h[a]
        masked == [s EXCEPT
                     !.Password = IF @ # <<>> THEN Mask ELSE @,
                     !.TOTP = IF @ # <<>> THEN Mask ELSE @,
                     !.TOTPSecret = IF @ # <<>> THEN Mask ELSE @]
    IN  [heap |-> h, out |-> IF reveal THEN s ELSE masked]

\* the loop of outputSessionsNativeMessaging
RECURSIVE RevealAll(_, _, _, _, _)
RevealAll(h, as, reveal, i, acc) ==
    IF i > Len(as) THEN [heap |-> h, out |-> acc]
    ELSE LET r == applyRevealFlag(h, as[i], reveal)
         IN  RevealAll(r.heap, as, reveal, i + 1, Append(acc, r.out))

\* the copy and masking of outputSessionAsJSON
outputSessionCopy(h, a, reveal) ==
    LET s == h[a]
        masked == [s EXCEPT
                     !.Password = IF @ # <<>> THEN Mask ELSE @,
                     !.TOTP = IF @ # <<>> THEN Mask ELSE @,
                     !.TOTPSecret = IF @ # <<>> THEN Mask ELSE @]
    IN  [heap |-> h, out |-> IF reveal THEN s ELSE masked]

\* url.QueryEscape: letters, digits and - _ . ~ stay, a space becomes +,
\* every other byte becomes %XX
HexDigit(d) == IF d < 10 THEN 48 + d ELSE 55 + d

RECURSIVE QueryEscape(_)
QueryEscape(s) ==
    IF s = <<>> THEN <<>>
    ELSE LET c == Head(s)
             e == IF \/ (c >= 48 /\ c <= 57) \/ (c >= 65 /\ c <= 90)
                     \/ (c >= 97 /\ c <= 122) \/ c \in {45, 46, 95, 126}
                  THEN <<c>>
                  ELSE IF c = 32 THEN <<43>>
                  ELSE <<37, HexDigit(c \div 16), HexDigit(c % 16)>>
         IN  e \o QueryEscape(Tail(s))

\* the line outputSessionAsURI prints
SessionURIText(s) ==
    <<111, 112, 58, 47, 47>> \o s.VaultID \o <<47>> \o s.ItemID
    \o (IF s.Host # <<>>
        THEN <<63, 116, 97, 114, 103, 101, 116, 95, 117, 114, 108, 61>> \o QueryEscape(s.Host)
        ELSE <<>>)

\* randomItemGenerator.Next: the copy of a session the picker lists
PickerItem(s) ==
    [SessionURI |-> s.SessionURI, Name |-> <<>>, Host |-> s.Host,
     Username |-> s.Username, Password |-> <<>>, Tenant |-> s.Tenant,
     TOTP |-> <<>>, TOTPSecret |-> <<>>, ItemID |-> s.ItemID,
     ItemName |-> s.ItemName, VaultID |-> s.VaultID,
     VaultName |-> s.VaultName, Tags |-> s.Tags]

(***************************************************************************)
(* Writing a frame.                                                        *)
(***************************************************************************)
\* how the two os.Stdout.Write calls of writeNativeMessage can end: both
\* complete, or one fails after part of its bytes
WriteOutcomes(faulty) ==
    {[at |-> "none", k |-> 0]}
    \cup (IF faulty
          THEN {[at |-> "header", k |-> k] : k \in {0, 2}}
               \cup {[at |-> "body", k |-> k] : k \in {0, 1}}
          ELSE {})

\* writeNativeMessage(jsonData) appending to the stream out
writeNativeMessage(out, jsonData, o) ==
    LET length == StreamLen(jsonData)
        prefix == FromBytes(PutUint32(length))
    IN  CASE o.at = "header" ->
                [out |-> Cat(out, Take(prefix, o.k)),
                 err |-> E_write_length \o E_io]
          [] o.at = "body" ->
                [out |-> Cat(Cat(out, prefix), Take(jsonData, o.k)),
                 err |-> E_write_json \o E_io]
          [] OTHER ->
                [out |-> Cat(Cat(out, prefix), jsonData), err |-> <<>>]

(***************************************************************************)
(* Configuration helpers.                                                  *)
(***************************************************************************)
\* strings.Split(input, ",")
RECURSIVE SplitComma(_, _, _)
SplitComma(input, i, cur) ==
    IF i > Len(input) THEN <<cur>>
    ELSE IF input[i] = 44 THEN <<cur>> \o SplitComma(input, i + 1, <<>>)
    ELSE SplitComma(input, i + 1, Append(cur, input[i]))

\* strings.TrimSpace
RECURSIVE TrimSpace(_)
TrimSpace(s) ==
    IF s # <<>> /\ IsSpace(Head(s)) THEN TrimSpace(Tail(s))
    ELSE IF s # <<>> /\ IsSpace(s[Len(s)]) THEN TrimSpace(SubSeq(s, 1, Len(s) - 1))
    ELSE s

NotEmpty(part) == part # <<>>

splitAndTrimString(input) ==
    IF input = <<>> THEN <<>>
    ELSE LET parts == SplitComma(input, 1, <<>>)
         IN  SelectSeq([i \in 1..Len(parts) |-> TrimSpace(parts[i])], NotEmpty)

\* parseTags(flagValue) with envTags the value of C8YOP_TAGS
parseTags(flagValue, envTags) ==
    LET tags == IF flagValue # <<>> THEN splitAndTrimString(flagValue)
                ELSE IF envTags # <<>> THEN splitAndTrimString(envTags)
                ELSE <<>>
    IN  IF Len(tags) = 0 THEN <<S_c8y>> ELSE tags

(***************************************************************************)
(* The inputs of a run.                                                    *)
(***************************************************************************)
\* a frame as the peer encodes it
Frame(body) == writeNativeMessage(<<>>, body, [at |-> "none", k |-> 0]).out

\* {} followed by tabs up to the largest accepted length
PaddedBody == Cat(FromBytes(RT_empty), <<-(MaxMessageLength - 2)>>)

\* the message bodies of complete frames
GoodBodies ==
    {FromBytes(RT_empty), FromBytes(RT_test_auth), FromBytes(RT_search_reveal),
     FromBytes(RT_not_json)}

\* what follows these frames before the peer closes the pipe: nothing, a
\* frame of the largest accepted length, half a header, a length of 0 or of
\* 1 MiB + 1 with bytes behind it, a body cut short.  `bodies` are the
\* complete frames among these bytes
Tails ==
    {[bytes |-> <<>>, bodies |-> <<>>],
     [bytes |-> Frame(PaddedBody), bodies |-> <<PaddedBody>>],
     [bytes |-> Take(Frame(FromBytes(RT_empty)), 2), bodies |-> <<>>],
     [bytes |-> Cat(FromBytes(PutUint32(0)), Frame(FromBytes(RT_empty))),
      bodies |-> <<>>],
     [bytes |-> Cat(FromBytes(PutUint32(MaxMessageLength + 1)), Cat(PaddedBody, <<-1>>)),
      bodies |-> <<>>],
     [bytes |-> Take(Frame(FromBytes(RT_search_reveal)), 7), bodies |-> <<>>]}

RECURSIVE FramesFrom(_, _)
FramesFrom(bodies, i) ==
    IF i > Len(bodies) THEN <<>>
    ELSE Cat(Frame(bodies[i]), FramesFrom(bodies, i + 1))

\* the wire bytes of a sequence of bodies
Frames(bodies) == FramesFrom(bodies, 1)

\* C8YOP_VAULT and C8YOP_TAGS
Envs ==
    {[vault |-> <<>>, tags |-> <<>>], [vault |-> S_V, tags |-> S_c8y],
     [vault |-> <<>>, tags |-> <<44, 32>>]}

\* the filter argument, --reveal and --output of a one-shot run
Flags ==
    [filter : {<<>>, S_a}, reveal : BOOLEAN, output : {"json", "uri", "xml"},
     tags : {<<>>}]

NoFlags == [filter |-> <<>>, reveal |-> FALSE, output |-> "json", tags |-> <<>>]

NoOutput == [path |-> "none", reveal |-> FALSE, src |-> <<>>, body |-> <<>>]

(***************************************************************************)
(* State.                                                                  *)
(***************************************************************************)
VARIABLES
    mode,             \* "native" when stdin is a pipe, "cli" when a terminal
    pc,               \* the statement the command is at
    result,           \* what RunE returned, "running" before
    stdin,            \* the bytes of the inbound stream not yet consumed
    stdout,           \* the bytes written to standard output so far
    stdoutFaulty,     \* whether a write to standard output can fail
    env,              \* C8YOP_VAULT, C8YOP_TAGS
    flags,            \* command line of a one-shot run
    backend,          \* the sessions the vault holds
    lengthBytes,      \* runNativeMessaging: the 4 header bytes
    messageLength,    \* runNativeMessaging: the decoded length
    messageBytes,     \* runNativeMessaging: the body
    req,              \* runNativeMessaging: the decoded request
    err,              \* runNativeMessaging: what processing returned
    heap,             \* the session objects of the current request
    sessions,         \* addresses of the sessions List returned
    filteredSessions, \* addresses after FilterSessions
    session,          \* address of the selected session, 0 when none
    sent,             \* history: the bodies of the complete frames on stdin
    received,         \* history: the bodies the loop has read completely
    childRead,        \* history: bytes a child process took from stdin
    frameStart,       \* history: stdin and stdout when the iteration began
    lastOut,          \* history: the session reply emitted last
    pickerCalls,      \* history: invocations of picker.Pick
    fn,               \* package function under call, "none" in a command run
    arg,              \* the arguments of that call
    ret,              \* what the call returned
    frame,            \* the local variables of a call that is in a loop
    opCalls           \* history: the queries the call has sent to 1Password

vars ==
    <<mode, pc, result, stdin, stdout, stdoutFaulty, env, flags, backend,
      lengthBytes, messageLength, messageBytes, req, err, heap, sessions,
      filteredSessions, session, sent, received, childRead, frameStart,
      lastOut, pickerCalls, fn, arg, ret, frame, opCalls>>

\* a call of a package function on its own
lib == <<fn, arg, ret, frame, opCalls>>

config == <<mode, stdoutFaulty, env, flags, backend, sent>>

locals ==
    <<lengthBytes, messageLength, messageBytes, req, err, heap, sessions,
      filteredSessions, session>>

InitCommon(faulty) ==
    /\ mode \in {"native", "cli"}
    /\ stdoutFaulty = (faulty /\ mode = "native")
    /\ env \in Envs
    /\ backend \in Backends
    /\ IF mode = "native"
       THEN /\ flags = NoFlags
            /\ \E bodies \in UNION {[1..n -> GoodBodies] : n \in 0..MaxFrames},
                  tail \in Tails :
                   /\ sent = bodies \o tail.bodies
                   /\ stdin = Cat(Frames(bodies), tail.bytes)
            /\ pc = "readHeader"
       ELSE /\ flags \in Flags
            /\ sent = <<>>
            /\ stdin = <<>>
            /\ pc = "list"
    /\ result = "running"
    /\ stdout = <<>>
    /\ lengthBytes = <<>>
    /\ messageLength = 0
    /\ messageBytes = <<>>
    /\ req = ZeroRequest
    /\ err = <<>>
    /\ heap = <<>>
    /\ sessions = <<>>
    /\ filteredSessions = <<>>
    /\ session = 0
    /\ received = <<>>
    /\ childRead = 0
    /\ frameStart = [stdin |-> stdin, stdout |-> <<>>]
    /\ lastOut = NoOutput
    /\ pickerCalls = 0
    /\ fn = "none"
    /\ arg = <<>>
    /\ ret = <<>>
    /\ frame = <<>>
    /\ opCalls = <<>>

\* standard output accepts every write
Init == InitCommon(FALSE)

\* standard output may fail a write
InitWriteFail == InitCommon(TRUE)

\* `continue`: the locals of the loop body are gone
NextIteration ==
    /\ pc' = "readHeader"
    /\ lengthBytes' = <<>>
    /\ messageLength' = 0
    /\ messageBytes' = <<>>
    /\ req' = ZeroRequest
    /\ err' = <<>>
    /\ heap' = <<>>
    /\ sessions' = <<>>
    /\ filteredSessions' = <<>>
    /\ session' = 0

\* `return e` out of RunE
Return(e) ==
    /\ pc' = "done"
    /\ result' = e

(***************************************************************************)
(* runNativeMessaging.                                                     *)
(***************************************************************************)
\* Step 1: io.ReadFull(os.Stdin, lengthBytes)
ReadHeader ==
    /\ mode = "native" /\ pc = "readHeader"
    /\ LET r == ReadFull(stdin, 4)
       IN  /\ stdin' = r.rest
           /\ frameStart' = [stdin |-> stdin, stdout |-> stdout]
           /\ IF r.err = "EOF"
              THEN Return("nil") /\ UNCHANGED lengthBytes
              ELSE IF r.err # "nil" \/ r.n # 4
              THEN Return("failed to read message length") /\ UNCHANGED lengthBytes
              ELSE /\ lengthBytes' = ToBytes(r.buf)
                   /\ pc' = "checkLength"
                   /\ UNCHANGED result
    /\ UNCHANGED <<lib, config, stdout, messageLength, messageBytes, req, err, heap,
                   sessions, filteredSessions, session, received, childRead,
                   lastOut, pickerCalls>>

\* a length check that refuses the largest length
ValidLengthBelow(length) == ~(length = 0 \/ length >= MaxMessageLength)

\* the length a header is accepted with
ValidLength(length) == ~(length = 0 \/ length > MaxMessageLength)

\* Step 2: decode the length and check it
CheckLength ==
    /\ mode = "native" /\ pc = "checkLength"
    /\ messageLength' = Uint32(lengthBytes)
    /\ IF ValidLength(messageLength')
       THEN pc' = "readBody" /\ UNCHANGED result
       ELSE Return("invalid message length")
    /\ UNCHANGED <<lib, config, stdin, stdout, lengthBytes, messageBytes, req, err,
                   heap, sessions, filteredSessions, session, received,
                   childRead, frameStart, lastOut, pickerCalls>>

\* Step 3: io.ReadFull(os.Stdin, messageBytes)
ReadBody ==
    /\ mode = "native" /\ pc = "readBody"
    /\ LET r == ReadFull(stdin, messageLength)
       IN  /\ stdin' = r.rest
           /\ IF r.err # "nil" \/ r.n # messageLength
              THEN /\ Return("failed to read message data")
                   /\ UNCHANGED <<messageBytes, received>>
              ELSE /\ messageBytes' = r.buf
                   /\ received' = Append(received, r.buf)
                   /\ pc' = "unmarshal"
                   /\ UNCHANGED result
    /\ UNCHANGED <<lib, config, stdout, lengthBytes, messageLength, req, err, heap,
                   sessions, filteredSessions, session, childRead, frameStart,
                   lastOut, pickerCalls>>

\* sendNativeMessagingResponse(errorResponse) of a loop that gives up after
\* an error reply
SendErrorResponseFatal(msg) ==
    \E o \in WriteOutcomes(stdoutFaulty) :
        LET w == writeNativeMessage(stdout, FromBytes(MarshalError(msg)), o)
        IN  /\ stdout' = w.out
            /\ Return("failed to send error response")
            /\ UNCHANGED locals

\* sendNativeMessagingResponse(errorResponse) and what the loop does with
\* its result: continue, or return when the write failed
SendErrorResponse(msg) ==
    \E o \in WriteOutcomes(stdoutFaulty) :
        LET w == writeNativeMessage(stdout, FromBytes(MarshalError(msg)), o)
        IN  /\ stdout' = w.out
            /\ IF w.err # <<>>
               THEN /\ Return("failed to send error response")
                    /\ UNCHANGED locals
               ELSE NextIteration /\ UNCHANGED result

\* Step 4: json.Unmarshal(messageBytes, &req)
ParseMessage ==
    /\ mode = "native" /\ pc = "unmarshal"
    /\ LET u == Unmarshal(messageBytes)
       IN  IF u.err # <<>>
           THEN SendErrorResponse(E_InvalidJSON \o u.err)
           ELSE /\ req' = u.req
                /\ pc' = "process"
                /\ UNCHANGED <<result, stdout, lengthBytes, messageLength,
                               messageBytes, err, heap, sessions,
                               filteredSessions, session>>
    /\ UNCHANGED <<lib, config, stdin, received, childRead, frameStart, lastOut,
                   pickerCalls>>

\* Client.List(): the external vault query fails, or yields the sessions the
\* vault holds
ListOutcomes ==
    {[err |-> E_not_signed_in, sessions |-> <<>>],
     [err |-> <<>>, sessions |-> backend]}

\* the effective vaults of processNativeMessagingRequest
EffectiveVaults(r) ==
    IF Len(r.Vaults) > 0 THEN r.Vaults
    ELSE IF env.vault # <<>> THEN <<env.vault>> ELSE <<>>

\* the effective tags of processNativeMessagingRequest
EffectiveTags(r) ==
    IF Len(r.Tags) > 0 THEN r.Tags
    ELSE IF env.tags # <<>> THEN splitAndTrimString(env.tags) ELSE <<S_c8y>>

\* a return to the loop that loses the error of the request
ProcessReturnsNothing(e) ==
    /\ err' = <<>>
    /\ pc' = "processed"

\* processNativeMessagingRequest returns e to the loop
ProcessReturns(e) ==
    /\ err' = e
    /\ pc' = "processed"

\* Step 5, request type test_auth: handleAuthTest(true).  The child process
\* `op signin` inherits os.Stdin and may take bytes from it; its output goes
\* to stderr
HandleAuthTest ==
    /\ mode = "native" /\ pc = "process"
    /\ req.Type = T_test_auth
    /\ \E k \in 0..MaxChildRead, success \in BOOLEAN, o \in WriteOutcomes(stdoutFaulty) :
        LET taken == Take(stdin, k)
            w == writeNativeMessage(stdout,
                     FromBytes(MarshalAuthResult(success, E_exit_status)), o)
        IN  /\ stdin' = Drop(stdin, k)
            /\ childRead' = childRead + StreamLen(taken)
            /\ stdout' = w.out
            /\ ProcessReturns(w.err)
    /\ UNCHANGED <<lib, config, result, lengthBytes, messageLength, messageBytes,
                   req, heap, sessions, filteredSessions, session, received,
                   frameStart, lastOut, pickerCalls>>

\* Step 5, any other request: the session query up to the selection
ProcessQuery ==
    /\ mode = "native" /\ pc = "process"
    /\ req.Type # T_test_auth
    /\ \E l \in ListOutcomes :
        LET vaults == EffectiveVaults(req)
            tags == EffectiveTags(req)
            filter == req.Search
            all == [i \in 1..Len(l.sessions) |-> i]
            filtered == FilterSessions(l.sessions, all, filter)
        IN  IF l.err # <<>>
            THEN /\ ProcessReturns(l.err)
                 /\ UNCHANGED <<heap, sessions, filteredSessions>>
            ELSE /\ heap' = l.sessions
                 /\ sessions' = all
                 /\ IF Len(all) = 0
                    THEN /\ ProcessReturns(E_no_vaults \o FormatSlice(vaults)
                                           \o E_and_tags \o FormatSlice(tags))
                         /\ UNCHANGED filteredSessions
                    ELSE /\ filteredSessions' = filtered
                         /\ IF Len(filtered) = 0
                            THEN ProcessReturns(E_no_filter \o filter)
                            ELSE pc' = "populate" /\ UNCHANGED err
    /\ UNCHANGED <<lib, config, result, stdin, stdout, lengthBytes, messageLength,
                   messageBytes, req, session, received, childRead, frameStart,
                   lastOut, pickerCalls>>

\* populateSessionFromList on the single match, or on each of several
PopulateSessions ==
    /\ mode = "native" /\ pc = "populate"
    /\ \E ts \in [1..Len(filteredSessions) ->
                    UNION {TOTPOutcomes(heap[a].TOTPSecret) :
                               a \in {filteredSessions[i] : i \in 1..Len(filteredSessions)}}] :
        /\ \A i \in 1..Len(filteredSessions) :
               ts[i] \in TOTPOutcomes(heap[filteredSessions[i]].TOTPSecret)
        /\ heap' = PopulateAll(heap, filteredSessions, sessions, ts, 1)
    /\ session' = IF Len(filteredSessions) = 1 THEN filteredSessions[1] ELSE 0
    /\ pc' = "output"
    /\ UNCHANGED <<lib, config, result, stdin, stdout, lengthBytes, messageLength,
                   messageBytes, req, err, sessions, filteredSessions, received,
                   childRead, frameStart, lastOut, pickerCalls>>

\* outputSessionNativeMessaging / outputSessionsNativeMessaging
OutputSessions ==
    /\ mode = "native" /\ pc = "output"
    /\ LET single == Len(filteredSessions) = 1
           r == IF single
                THEN applyRevealFlag(heap, session, req.Reveal)
                ELSE RevealAll(heap, filteredSessions, req.Reveal, 1, <<>>)
           jsonData == IF single THEN MarshalSession(r.out)
                       ELSE MarshalSessions(r.out)
       IN  \E o \in WriteOutcomes(stdoutFaulty) :
               LET w == writeNativeMessage(stdout, FromBytes(jsonData), o)
               IN  /\ heap' = r.heap
                   /\ stdout' = w.out
                   /\ lastOut' = [path |-> IF single THEN "single" ELSE "array",
                                  reveal |-> req.Reveal,
                                  src |-> [i \in 1..Len(filteredSessions) |->
                                              heap[filteredSessions[i]]],
                                  body |-> jsonData]
                   /\ ProcessReturns(w.err)
    /\ UNCHANGED <<lib, config, result, stdin, lengthBytes, messageLength,
                   messageBytes, req, sessions, filteredSessions, session,
                   received, childRead, frameStart, pickerCalls>>

\* back in the loop: an error of the request is sent as an error reply
AfterProcess ==
    /\ mode = "native" /\ pc = "processed"
    /\ IF err # <<>>
       THEN SendErrorResponse(err)
       ELSE NextIteration /\ UNCHANGED <<result, stdout>>
    /\ UNCHANGED <<lib, config, stdin, received, childRead, frameStart, lastOut,
                   pickerCalls>>

(***************************************************************************)
(* rootCmd.RunE, interactive/filtered selection.                           *)
(***************************************************************************)
\* a selection rule that takes the first match whenever there is one
AutoSelectFirst(filtered) == Len(filtered) >= 1

\* the selection rule: a single match is taken without asking
AutoSelect(filtered) == Len(filtered) = 1

\* client.List(), FilterSessions and the selection rule
ListAndSelect ==
    /\ mode = "cli" /\ pc = "list"
    /\ \E l \in ListOutcomes :
        LET all == [i \in 1..Len(l.sessions) |-> i]
            filtered == IF flags.filter # <<>>
                        THEN FilterSessions(l.sessions, all, flags.filter)
                        ELSE all
        IN  IF l.err # <<>>
            THEN /\ Return("list failed")
                 /\ UNCHANGED <<heap, sessions, filteredSessions, session>>
            ELSE /\ heap' = l.sessions
                 /\ sessions' = all
                 /\ IF Len(all) = 0
                    THEN /\ Return("no sessions found matching tags")
                         /\ UNCHANGED <<filteredSessions, session>>
                    ELSE /\ filteredSessions' = filtered
                         /\ IF Len(filtered) = 0
                            THEN /\ Return("no sessions found matching filter")
                                 /\ UNCHANGED session
                            ELSE IF AutoSelect(filtered)
                            THEN /\ session' = filtered[1]
                                 /\ pc' = "populate"
                                 /\ UNCHANGED result
                            ELSE /\ pc' = "pick"
                                 /\ UNCHANGED <<result, session>>
    /\ UNCHANGED <<lib, config, stdin, stdout, lengthBytes, messageLength,
                   messageBytes, req, err, received, childRead, frameStart,
                   lastOut, pickerCalls>>

\* picker.Pick(filteredSessions, metadata): the user selects one of the
\* listed copies, leaves without selecting, or the terminal program fails
Pick ==
    /\ mode = "cli" /\ pc = "pick"
    /\ pickerCalls' = pickerCalls + 1
    /\ \/ \E i \in 1..Len(filteredSessions) :
            /\ heap' = Append(heap, PickerItem(heap[filteredSessions[i]]))
            /\ session' = Len(heap) + 1
            /\ pc' = "populate"
            /\ UNCHANGED result
       \/ /\ Return("empty")
          /\ UNCHANGED <<heap, session>>
       \/ /\ Return("exit 1")
          /\ UNCHANGED <<heap, session>>
    /\ UNCHANGED <<lib, config, stdin, stdout, lengthBytes, messageLength,
                   messageBytes, req, err, sessions, filteredSessions, received,
                   childRead, frameStart, lastOut>>

\* populateSessionFromList(session, sessions)
PopulateSelected ==
    /\ mode = "cli" /\ pc = "populate"
    /\ \E t \in TOTPOutcomes(heap[session].TOTPSecret) :
        heap' = populateSessionFromList(heap, session, sessions, t)
    /\ pc' = "output"
    /\ UNCHANGED <<lib, config, result, stdin, stdout, lengthBytes, messageLength,
                   messageBytes, req, err, sessions, filteredSessions, session,
                   received, childRead, frameStart, lastOut, pickerCalls>>

\* outputSession(session, reveal, outputFormat)
OutputSelected ==
    /\ mode = "cli" /\ pc = "output"
    /\ CASE flags.output = "json" ->
              LET r == outputSessionCopy(heap, session, flags.reveal)
                  out == MarshalIndentSession(r.out)
              IN  /\ heap' = r.heap
                  /\ stdout' = Cat(stdout, FromBytes(out \o <<10>>))
                  /\ lastOut' = [path |-> "cli", reveal |-> flags.reveal,
                                 src |-> <<heap[session]>>, body |-> out]
                  /\ Return("nil")
         [] flags.output = "uri" ->
              IF heap[session].VaultID = <<>> \/ heap[session].ItemID = <<>>
              THEN /\ Return("missing vault name or item ID for URI output")
                   /\ UNCHANGED <<heap, stdout, lastOut>>
              ELSE /\ stdout' = Cat(stdout,
                                    FromBytes(SessionURIText(heap[session]) \o <<10>>))
                   /\ Return("nil")
                   /\ UNCHANGED <<heap, lastOut>>
         [] OTHER ->
              /\ Return("unsupported output format")
              /\ UNCHANGED <<heap, stdout, lastOut>>
    /\ UNCHANGED <<lib, config, stdin, lengthBytes, messageLength, messageBytes,
                   req, err, sessions, filteredSessions, session, received,
                   childRead, frameStart, pickerCalls>>

Next ==
    \/ ReadHeader
    \/ CheckLength
    \/ ReadBody
    \/ ParseMessage
    \/ HandleAuthTest
    \/ ProcessQuery
    \/ PopulateSessions
    \/ OutputSessions
    \/ AfterProcess
    \/ ListAndSelect
    \/ Pick
    \/ PopulateSelected
    \/ OutputSelected

Spec == Init /\ [][Next]_vars

SpecWriteFail == InitWriteFail /\ [][Next]_vars

(***************************************************************************)
(* Package functions called on their own (pkg/core, pkg/onepassword).      *)
(***************************************************************************)
\* the command is not running: no stream, no request, no session
NoCommand ==
    /\ mode = "lib"
    /\ pc = "call"
    /\ result = "running"
    /\ stdin = <<>> /\ stdout = <<>> /\ stdoutFaulty = FALSE
    /\ env = [vault |-> <<>>, tags |-> <<>>]
    /\ flags = NoFlags
    /\ backend = <<>>
    /\ lengthBytes = <<>> /\ messageLength = 0 /\ messageBytes = <<>>
    /\ req = ZeroRequest /\ err = <<>>
    /\ heap = <<>> /\ sessions = <<>> /\ filteredSessions = <<>> /\ session = 0
    /\ sent = <<>> /\ received = <<>> /\ childRead = 0
    /\ frameStart = [stdin |-> <<>>, stdout |-> <<>>]
    /\ lastOut = NoOutput
    /\ pickerCalls = 0

\* the function under call returns v
Returns(v) ==
    /\ pc = "call"
    /\ pc' = "return"
    /\ ret' = v
    /\ UNCHANGED <<fn, arg, frame, opCalls, config, result, stdin, stdout,
                   locals, received, childRead, frameStart, lastOut, pickerCalls>>

\* sessions a filter is applied to: "prod" is in the name of the first, in
\* the item title of the second and in nothing but the username of the third
FilterPool ==
    {[SessionURI |-> S_uri1, Name |-> <<80, 114, 111, 100>>, ItemName |-> <<69, 110, 118>>,
      Host |-> <<104, 116, 116, 112, 115, 58, 47, 47, 97, 46, 105, 111>>, Username |-> <<106, 111, 104, 110>>, Password |-> <<112, 119>>,
      Tenant |-> S_t, TOTP |-> <<>>, TOTPSecret |-> S_s, ItemID |-> S_i1,
      VaultID |-> S_v1, VaultName |-> S_V, Tags |-> <<S_c8y>>],
     [SessionURI |-> S_uri2, Name |-> <<84, 101, 115, 116>>, ItemName |-> <<80, 82, 79, 68, 32, 98, 111, 120>>,
      Host |-> <<104, 116, 116, 112, 115, 58, 47, 47, 66, 46, 105, 111>>, Username |-> <<106, 97, 110, 101>>, Password |-> <<>>,
      Tenant |-> <<>>, TOTP |-> <<>>, TOTPSecret |-> <<>>, ItemID |-> S_i2,
      VaultID |-> S_v1, VaultName |-> S_V, Tags |-> <<S_c8y>>],
     [SessionURI |-> S_uri2, Name |-> <<68, 101, 118>>, ItemName |-> <<68, 101, 118>>,
      Host |-> <<>>, Username |-> <<112, 114, 111, 100>>, Password |-> <<>>,
      Tenant |-> <<>>, TOTP |-> <<>>, TOTPSecret |-> <<>>, ItemID |-> S_i2,
      VaultID |-> S_v1, VaultName |-> S_V, Tags |-> <<>>]}

\* filter texts: empty, "prod", "PROD", "env", "a.io", "B.IO", "e", "john",
\* "JANE", "t1", "pw", "jbsw", "zz"
FilterTexts ==
    {<<>>, <<112, 114, 111, 100>>, <<80, 82, 79, 68>>, <<101, 110, 118>>, <<97, 46, 105, 111>>, <<66, 46, 73, 79>>, <<101>>, <<106, 111, 104, 110>>, <<74, 65, 78, 69>>,
     <<116, 49>>, <<112, 119>>, <<106, 98, 115, 119>>, <<122, 122>>}

FilterSessionsInputs ==
    [sessions : UNION {[1..n -> FilterPool] : n \in 0..MaxSessions},
     filter : FilterTexts]

\* core.FilterSessions(sessions, filter); the slice holds pointers, which are
\* the positions of the sessions in the argument
CallFilterSessions ==
    /\ fn = "FilterSessions"
    /\ Returns(FilterSessions(arg.sessions,
                              [i \in 1..Len(arg.sessions) |-> i], arg.filter))

(***************************************************************************)
(* Session synthesis (pkg/core/session.go).                                *)
(***************************************************************************)
\* strings.Index: the position of the first occurrence, -1 when there is none
Index(s, sub) ==
    IF Contains(s, sub)
    THEN CHOOSE i \in 0..(Len(s) - Len(sub)) :
             /\ SubSeq(s, i + 1, i + Len(sub)) = sub
             /\ \A j \in 0..(i - 1) : SubSeq(s, j + 1, j + Len(sub)) # sub
    ELSE -1

\* s[:i] for the position i strings.Index found, s when it found none
Before(s, i) == IF i = -1 THEN s ELSE SubSeq(s, 1, i)

\* parts[0] of strings.Split(s, sep)
FirstPart(s, sep) == Before(s, Index(s, sep))

\* strings.TrimSuffix(s, "/")
TrimSuffix(s) ==
    IF s # <<>> /\ s[Len(s)] = 47 THEN SubSeq(s, 1, Len(s) - 1) ELSE s

\* parts[1] of strings.Split(url, "://") when the separator is at position i,
\* the url itself when i = -1
WithoutProtocol(url, i) ==
    IF i = -1 THEN url ELSE FirstPart(SubSeq(url, i + 4, Len(url)), <<58, 47, 47>>)

\* NormalizeDisplayURL(url)
NormalizeDisplayURL(url) ==
    IF url = <<>> THEN url
    ELSE TrimSuffix(WithoutProtocol(url, Index(url, <<58, 47, 47>>)))

\* strings.Join(strings.Split(firstPart, "-")[:2], "-") for the position h1 of
\* the first hyphen
FirstTwo(firstPart, h1) ==
    SubSeq(firstPart, 1, h1 + 1)
        \o FirstPart(SubSeq(firstPart, h1 + 2, Len(firstPart)), <<45>>)

\* extractHostname, from the first dot-separated part on: a part longer than
\* 20 bytes is cut to its first two hyphen-separated pieces or to 20 bytes
ShortName(firstPart) ==
    IF Len(firstPart) > 20
    THEN IF Contains(firstPart, <<45>>)
         THEN FirstTwo(firstPart, Index(firstPart, <<45>>))
         ELSE SubSeq(firstPart, 1, 20) \o <<46, 46, 46>>
    ELSE firstPart

\* extractHostname(urlStr)
extractHostname(urlStr) ==
    ShortName(FirstPart(FirstPart(NormalizeDisplayURL(urlStr), <<47>>), <<46>>))

\* labelCounts[label] of MapToSessions
LabelCount(allURLs, label) ==
    Cardinality({i \in 1..Len(allURLs) : allURLs[i].Label = label})

\* strconv of a small non-negative int, as %d prints it
Itoa(n) == IF n < 10 THEN <<48 + n>> ELSE <<48 + (n \div 10), 48 + (n % 10)>>

\* a naming rule that numbers the URLs from zero
BuildSessionNameFromZero(item, urlSource, urlIndex, totalURLs, allURLs) ==
    IF totalURLs = 1 THEN item.Title
    ELSE IF LabelCount(allURLs, urlSource.Label) > 1
    THEN IF urlSource.Primary
         THEN item.Title \o <<32, 40>> \o extractHostname(urlSource.URL) \o <<32, 45, 32, 80, 114, 105, 109, 97, 114, 121, 41>>
         ELSE item.Title \o <<32, 40>> \o extractHostname(urlSource.URL) \o <<41>>
    ELSE IF urlSource.Label # <<>> /\ urlSource.Label # <<119, 101, 98, 115, 105, 116, 101>>
    THEN item.Title \o <<32, 40>> \o urlSource.Label \o <<41>>
    ELSE IF urlSource.Primary
    THEN item.Title \o <<32, 40, 80, 114, 105, 109, 97, 114, 121, 41>>
    ELSE item.Title \o <<32, 40, 85, 82, 76, 32>> \o Itoa(urlIndex) \o <<41>>

\* a naming rule that puts the label of the URL into the name whenever the
\* item has several URLs
BuildSessionNameByLabel(item, urlSource, urlIndex, totalURLs, allURLs) ==
    IF totalURLs = 1 THEN item.Title
    ELSE item.Title \o <<32, 40>> \o urlSource.Label \o <<41>>

\* BuildSessionName(item, urlSource, urlIndex, totalURLs, labelCounts), with
\* the URL list in the place of the label counts made from it
BuildSessionName(item, urlSource, urlIndex, totalURLs, allURLs) ==
    IF totalURLs = 1 THEN item.Title
    ELSE IF LabelCount(allURLs, urlSource.Label) > 1
    THEN IF urlSource.Primary
         THEN item.Title \o <<32, 40>> \o extractHostname(urlSource.URL) \o <<32, 45, 32, 80, 114, 105, 109, 97, 114, 121, 41>>
         ELSE item.Title \o <<32, 40>> \o extractHostname(urlSource.URL) \o <<41>>
    ELSE IF urlSource.Label # <<>> /\ urlSource.Label # <<119, 101, 98, 115, 105, 116, 101>>
    THEN item.Title \o <<32, 40>> \o urlSource.Label \o <<41>>
    ELSE IF urlSource.Primary
    THEN item.Title \o <<32, 40, 80, 114, 105, 109, 97, 114, 121, 41>>
    ELSE item.Title \o <<32, 40, 85, 82, 76, 32>> \o Itoa(urlIndex + 1) \o <<41>>

\* a locator with item and vault in each other's place
BuildSessionURISwapped(vault, item) == <<111, 112, 58, 47, 47>> \o item \o <<47>> \o vault

\* BuildSessionURI(vault, item)
BuildSessionURI(vault, item) == <<111, 112, 58, 47, 47>> \o vault \o <<47>> \o item

\* strings.EqualFold on ASCII text
EqualFold(s, t) == ToLower(s) = ToLower(t)

\* a tag filter that compares the tags as they are written
FilterMatchingTagsExact(itemTags, requestedTags) ==
    IF Len(requestedTags) = 0 THEN <<>>
    ELSE LET Requested(itemTag) ==
                 \E k \in 1..Len(requestedTags) : itemTag = requestedTags[k]
         IN  SelectSeq(itemTags, Requested)

\* FilterMatchingTags(itemTags, requestedTags); nil is the empty slice
FilterMatchingTags(itemTags, requestedTags) ==
    IF Len(requestedTags) = 0 THEN <<>>
    ELSE LET Requested(itemTag) ==
                 \E k \in 1..Len(requestedTags) :
                     EqualFold(itemTag, requestedTags[k])
         IN  SelectSeq(itemTags, Requested)

\* CreateSession(item, fields, vaultName, urlSource, sessionName, sessionURI,
\* filteredTags, useFiltering)
CreateSession(item, fields, vaultName, urlSource, sessionName, sessionURI, filteredTags, useFiltering) ==
    [SessionURI |-> sessionURI, Name |-> sessionName, Host |-> urlSource.URL,
     Username |-> fields.Username, Password |-> fields.Password,
     Tenant |-> fields.Tenant, TOTP |-> <<>>, TOTPSecret |-> fields.TOTPSecret,
     ItemID |-> item.ID, ItemName |-> item.Title, VaultID |-> item.Vault.ID,
     VaultName |-> vaultName,
     Tags |-> IF useFiltering THEN filteredTags ELSE item.Tags]

\* a synthesis that gives no session to an item none of whose tags was
\* asked for
MapToSessionsDroppingUnmatched(item, fields, allURLs, vaultName, requestedTags) ==
    LET useFiltering == Len(requestedTags) > 0
        filteredTags == FilterMatchingTags(item.Tags, requestedTags)
        emptyURL == [URL |-> <<>>, Label |-> <<>>, Primary |-> FALSE,
                     Source |-> "none"]
        n == IF useFiltering /\ filteredTags = <<>> THEN 0
             ELSE IF Len(allURLs) = 0 THEN 1 ELSE Len(allURLs)
    IN  [i \in 1..n |->
            LET u == IF Len(allURLs) = 0 THEN emptyURL ELSE allURLs[i]
            IN  CreateSession(item, fields, vaultName, u,
                    BuildSessionName(item, u, i - 1,
                        IF Len(allURLs) = 0 THEN 1 ELSE Len(allURLs), allURLs),
                    BuildSessionURI(item.Vault.ID, item.ID),
                    filteredTags, useFiltering)]

\* MapToSessions(item, fields, allURLs, vaultName, requestedTags)
MapToSessions(item, fields, allURLs, vaultName, requestedTags) ==
    LET useFiltering == Len(requestedTags) > 0
        filteredTags == IF useFiltering
                        THEN FilterMatchingTags(item.Tags, requestedTags)
                        ELSE <<>>
        emptyURL == [URL |-> <<>>, Label |-> <<>>, Primary |-> FALSE,
                     Source |-> "none"]
    IN  IF Len(allURLs) = 0
        THEN <<CreateSession(item, fields, vaultName, emptyURL,
                   BuildSessionName(item, emptyURL, 0, 1, <<>>),
                   BuildSessionURI(item.Vault.ID, item.ID),
                   filteredTags, useFiltering)>>
        ELSE [i \in 1..Len(allURLs) |->
                 CreateSession(item, fields, vaultName, allURLs[i],
                     BuildSessionName(item, allURLs[i], i - 1, Len(allURLs),
                                      allURLs),
                     BuildSessionURI(item.Vault.ID, item.ID),
                     filteredTags, useFiltering)]

\* URL sources of an item: two hosts with the same first part under the label
\* "website" (one of them primary), a host without scheme under a label of
\* its own, and two hosts whose long first parts shorten to the same text
URLPool ==
    {[URL |-> <<104, 116, 116, 112, 115, 58, 47, 47, 97, 46, 120, 46, 105, 111, 47>>, Label |-> <<119, 101, 98, 115, 105, 116, 101>>, Primary |-> FALSE,
      Source |-> "urls"],
     [URL |-> <<104, 116, 116, 112, 115, 58, 47, 47, 97, 46, 121, 46, 105, 111>>, Label |-> <<119, 101, 98, 115, 105, 116, 101>>, Primary |-> TRUE,
      Source |-> "urls"],
     [URL |-> <<98, 46, 105, 111, 47, 112>>, Label |-> <<80, 114, 111, 100>>, Primary |-> FALSE,
      Source |-> "field"],
     [URL |-> <<104, 116, 116, 112, 115, 58, 47, 47, 105, 110, 116, 101, 103, 114, 97, 116, 105, 111, 110, 45, 116, 101, 115, 116, 115, 45, 48, 48, 49, 46, 99, 56, 121, 46, 105, 111>>, Label |-> <<80, 114, 111, 100>>,
      Primary |-> FALSE, Source |-> "urls"],
     [URL |-> <<104, 116, 116, 112, 115, 58, 47, 47, 105, 110, 116, 101, 103, 114, 97, 116, 105, 111, 110, 45, 116, 101, 115, 116, 115, 45, 48, 48, 50, 46, 99, 56, 121, 46, 105, 111>>, Label |-> <<80, 114, 111, 100>>,
      Primary |-> FALSE, Source |-> "urls"],
     [URL |-> <<104, 116, 116, 112, 115, 58, 47, 47, 97, 98, 99, 100, 101, 102, 103, 104, 105, 106, 107, 108, 109, 110, 111, 112, 113, 114, 115, 116, 117, 118, 119, 120, 121, 122, 46, 105, 111, 47, 120>>, Label |-> <<>>,
      Primary |-> TRUE, Source |-> "urls"]}

\* tag lists of an item and of a request: "c8y", "Prod", "C8Y", "prod", "x"
TagLists ==
    {<<>>, <<<<99, 56, 121>>, <<80, 114, 111, 100>>>>, <<<<67, 56, 89>>, <<99, 56, 121>>>>, <<<<67, 56, 89>>>>,
     <<<<112, 114, 111, 100>>, <<99, 56, 121>>>>, <<<<120>>>>}

MapToSessionsInputs ==
    [item : [ID : {S_i1, S_i2}, Title : {S_A}, Vault : {[ID |-> S_v1, Name |-> S_V]},
             Tags : TagLists],
     fields : {[Username |-> S_u, Password |-> S_p, TOTPSecret |-> S_s,
                Tenant |-> S_t]},
     allURLs : UNION {[1..n -> URLPool] : n \in 0..MaxURLs},
     vaultName : {S_V},
     requestedTags : TagLists]

FilterMatchingTagsInputs == [itemTags : TagLists, requestedTags : TagLists]

\* core.MapToSessions(item, fields, allURLs, vaultName, requestedTags)
CallMapToSessions ==
    /\ fn = "MapToSessions"
    /\ Returns(MapToSessions(arg.item, arg.fields, arg.allURLs, arg.vaultName,
                             arg.requestedTags))

\* core.FilterMatchingTags(itemTags, requestedTags)
CallFilterMatchingTags ==
    /\ fn = "FilterMatchingTags"
    /\ Returns(FilterMatchingTags(arg.itemTags, arg.requestedTags))

(***************************************************************************)
(* URL collection (pkg/onepassword/client.go).                             *)
(***************************************************************************)
\* strings.ToUpper on ASCII text
ToUpper(s) == [i \in 1..Len(s) |-> IF s[i] >= 97 /\ s[i] <= 122 THEN s[i] - 32 ELSE s[i]]

\* isURLField(field)
isURLField(field) ==
    /\ TrimSpace(field.Value) # <<>>
    /\ \/ ToLower(field.Label) = <<119, 101, 98, 115, 105, 116, 101>>
       \/ ToLower(field.Label) = <<117, 114, 108>>
       \/ ToUpper(field.Type) = <<85, 82, 76>>

\* the less function given to sort.Slice: a primary URL before one that is not
less(x, y) == x.Primary /\ ~y.Primary

\* data.Swap(i, j), positions counted from 0
Swap(data, i, j) ==
    [k \in 1..Len(data) |-> IF k = i + 1 THEN data[j + 1]
                            ELSE IF k = j + 1 THEN data[i + 1]
                            ELSE data[k]]

\* package sort, insertionSortLessFunc(data, a, b)
insertionSort(data, a, b) ==
    LET RECURSIVE Inner(_, _)
        Inner(d, j) == IF j > a /\ less(d[j + 1], d[j])
                       THEN Inner(Swap(d, j, j - 1), j - 1)
                       ELSE d
        RECURSIVE Outer(_, _)
        Outer(d, i) == IF i < b THEN Outer(Inner(d, i), i + 1) ELSE d
    IN  Outer(data, a + 1)

\* package sort, choosePivotLessFunc(data, a, b) for 8 <= b - a < 50: the
\* median of the elements at a + l/4, a + l/4*2, a + l/4*3 and the number of
\* swaps it took to find it
choosePivot(data, a, b) ==
    LET l == b - a
        Order2(p) == IF less(data[p.y + 1], data[p.x + 1])
                     THEN [x |-> p.y, y |-> p.x, swaps |-> p.swaps + 1]
                     ELSE p
        i == a + (l \div 4) * 1
        j == a + (l \div 4) * 2
        k == a + (l \div 4) * 3
        s1 == Order2([x |-> i, y |-> j, swaps |-> 0])
        s2 == Order2([x |-> s1.y, y |-> k, swaps |-> s1.swaps])
        s3 == Order2([x |-> s1.x, y |-> s2.x, swaps |-> s2.swaps])
    IN  [pivot |-> s3.y, swaps |-> s3.swaps]

\* package sort, partitionLessFunc(data, a, b, pivot): the elements less than
\* the pivot to its left, the others to its right
partition(data, a, b, pivot) ==
    LET RECURSIVE SkipI(_, _, _)
        SkipI(d, i, j) == IF i <= j /\ less(d[i + 1], d[a + 1])
                          THEN SkipI(d, i + 1, j) ELSE i
        RECURSIVE SkipJ(_, _, _)
        SkipJ(d, i, j) == IF i <= j /\ ~less(d[j + 1], d[a + 1])
                          THEN SkipJ(d, i, j - 1) ELSE j
        RECURSIVE Loop(_, _, _)
        Loop(d, i, j) ==
            LET i2 == SkipI(d, i, j)
                j2 == SkipJ(d, i2, j)
            IN  IF i2 > j2 THEN [data |-> Swap(d, j2, a), mid |-> j2]
                ELSE Loop(Swap(d, i2, j2), i2 + 1, j2 - 1)
    IN  Loop(Swap(data, a, pivot), a + 1, b - 1)

\* slices up to this length are sorted by insertion (package sort)
maxInsertion == 12

\* sort.Slice(allURLs, less) as pdqsortLessFunc runs it on up to
\* maxInsertion + 1 elements: by insertion up to maxInsertion; beyond, a slice
\* found in order is left alone, any other is partitioned around the pivot and
\* the two sides are sorted by insertion
Slice(data) ==
    LET n == Len(data)
        p == choosePivot(data, 0, n)
        inOrder == \A i \in 1..(n - 1) : ~less(data[i + 1], data[i])
        parted == partition(data, 0, n, p.pivot)
    IN  IF n <= maxInsertion THEN insertionSort(data, 0, n)
        ELSE IF p.swaps = 0 /\ inOrder THEN data
        ELSE insertionSort(insertionSort(parted.data, 0, parted.mid),
                           parted.mid + 1, n)

\* (opi *OPItem) collectURLs()
collectURLs(opi) ==
    LET FromURL(url) == [URL |-> url.Href, Label |-> url.Label,
                         Primary |-> url.Primary, Source |-> "urls"]
        FromField(field) == [URL |-> field.Value, Label |-> field.Label,
                             Primary |-> FALSE, Source |-> "field"]
        urlFields == SelectSeq(opi.Fields, isURLField)
    IN  Slice([i \in 1..Len(opi.URLs) |-> FromURL(opi.URLs[i])]
              \o [i \in 1..Len(urlFields) |-> FromField(urlFields[i])])

\* entries of the urls array of an item and fields of an item: a website
\* field, a field of type "url", a field with a blank value and a field that
\* is no URL
OPURLPool ==
    {[Label |-> <<119, 101, 98, 115, 105, 116, 101>>, Primary |-> FALSE, Href |-> <<104, 116, 116, 112, 115, 58, 47, 47, 97, 46, 105, 111>>],
     [Label |-> <<80, 114, 111, 100>>, Primary |-> TRUE, Href |-> <<104, 116, 116, 112, 115, 58, 47, 47, 98, 46, 105, 111>>],
     [Label |-> <<>>, Primary |-> FALSE, Href |-> <<104, 116, 116, 112, 115, 58, 47, 47, 99, 46, 105, 111>>]}

OPFieldPool ==
    {[Label |-> <<87, 101, 98, 115, 105, 116, 101>>, Type |-> <<83, 84, 82, 73, 78, 71>>, Value |-> <<104, 116, 116, 112, 115, 58, 47, 47, 102, 46, 105, 111>>],
     [Label |-> <<83, 116, 97, 103, 105, 110, 103>>, Type |-> <<117, 114, 108>>, Value |-> <<103, 46, 105, 111>>],
     [Label |-> <<117, 114, 108>>, Type |-> <<83, 84, 82, 73, 78, 71>>, Value |-> <<32, 32>>],
     [Label |-> <<117, 115, 101, 114, 110, 97, 109, 101>>, Type |-> <<83, 84, 82, 73, 78, 71>>, Value |-> <<117>>]}

\* an item with maxInsertion + 1 entries in its urls array, every choice of
\* the primary flags
LongItems ==
    {[URLs |-> [i \in 1..(maxInsertion + 1) |->
                   [Label |-> <<119, 101, 98, 115, 105, 116, 101>>, Primary |-> flags13[i],
                    Href |-> <<104, 48 + (i \div 10), 48 + (i % 10)>>]],
      Fields |-> <<>>] : flags13 \in [1..(maxInsertion + 1) -> BOOLEAN]}

collectURLsInputs ==
    [URLs : UNION {[1..n -> OPURLPool] : n \in 0..MaxURLs},
     Fields : UNION {[1..n -> OPFieldPool] : n \in 0..MaxFields}]
    \cup LongItems

\* item.collectURLs()
CallCollectURLs ==
    /\ fn = "collectURLs"
    /\ Returns(collectURLs(arg))

(***************************************************************************)
(* Locator parsing (pkg/onepassword/client.go).                            *)
(***************************************************************************)
\* a parser that accepts a locator without item
ParseOPURIAllowEmptyItem(uri) ==
    LET prefix == <<111, 112, 58, 47, 47>>
        path == SubSeq(uri, Len(prefix) + 1, Len(uri))
        cut == Index(path, <<47>>)
    IN  IF \/ Len(uri) < Len(prefix)
           \/ SubSeq(uri, 1, Len(prefix)) # prefix
           \/ cut = -1 \/ cut = 0
        THEN [vault |-> <<>>, item |-> <<>>, err |-> "invalid op:// URI format"]
        ELSE [vault |-> SubSeq(path, 1, cut),
              item |-> SubSeq(path, cut + 2, Len(path)), err |-> "nil"]

\* ParseOPURI(uri)
ParseOPURI(uri) ==
    LET prefix == <<111, 112, 58, 47, 47>>
        path == SubSeq(uri, Len(prefix) + 1, Len(uri))
        cut == Index(path, <<47>>)
        vault == SubSeq(path, 1, cut)
        item == SubSeq(path, cut + 2, Len(path))
        Fail(e) == [vault |-> <<>>, item |-> <<>>, err |-> e]
    IN  IF Len(uri) < Len(prefix) \/ SubSeq(uri, 1, Len(prefix)) # prefix
        THEN Fail("invalid op:// URI format")
        ELSE IF cut = -1
        THEN Fail("invalid op:// URI format: expected op://vault/item")
        ELSE IF vault = <<>>
        THEN Fail("invalid op:// URI format: vault cannot be empty")
        ELSE IF item = <<>>
        THEN Fail("invalid op:// URI format: item cannot be empty")
        ELSE [vault |-> vault, item |-> item, err |-> "nil"]

\* texts over "v", "i" and "/" of up to MaxPath bytes
Paths == UNION {[1..n -> {118, 105, 47}] : n \in 0..MaxPath}

\* locators: a path behind "op://", behind nothing, and behind the near
\* misses "op:/", "OP://" and "http://"
ParseOPURIInputs ==
    {scheme \o path : scheme \in {<<111, 112, 58, 47, 47>>, <<>>, <<111, 112, 58, 47>>, <<79, 80, 58, 47, 47>>, <<104, 116, 116, 112, 58, 47, 47>>},
                      path \in Paths}

\* onepassword.ParseOPURI(uri)
CallParseOPURI ==
    /\ fn = "ParseOPURI"
    /\ Returns(ParseOPURI(arg))

(***************************************************************************)
(* Field extraction (pkg/onepassword/client.go).                           *)
(***************************************************************************)
\* strings.HasPrefix
HasPrefix(s, prefix) == Len(s) >= Len(prefix) /\ SubSeq(s, 1, Len(prefix)) = prefix

\* fields that take every tenant-labelled value, the last one winning
scanFieldLastTenant(field, fields) ==
    [username |-> IF field.ID = <<117, 115, 101, 114, 110, 97, 109, 101>> THEN field.Value ELSE fields.username,
     password |-> IF field.ID = <<112, 97, 115, 115, 119, 111, 114, 100>> THEN field.Value ELSE fields.password,
     totpSecret |-> IF field.Type = <<79, 84, 80>> THEN field.Secret ELSE fields.totpSecret,
     tenant |-> IF HasPrefix(ToLower(field.Label), <<116, 101, 110, 97, 110, 116>>) THEN field.Value ELSE fields.tenant]

\* the body of the loop of extractFields: what one field does to the fields
scanField(field, fields) ==
    [username |-> IF field.ID = <<117, 115, 101, 114, 110, 97, 109, 101>> THEN field.Value ELSE fields.username,
     password |-> IF field.ID = <<112, 97, 115, 115, 119, 111, 114, 100>> THEN field.Value ELSE fields.password,
     totpSecret |-> IF field.Type = <<79, 84, 80>> THEN field.Secret ELSE fields.totpSecret,
     tenant |-> IF HasPrefix(ToLower(field.Label), <<116, 101, 110, 97, 110, 116>>) /\ fields.tenant = <<>> THEN field.Value ELSE fields.tenant]

\* the loop of extractFields from field i on
RECURSIVE scanFields(_, _, _)
scanFields(Fields, i, fields) ==
    IF i > Len(Fields) THEN fields
    ELSE scanFields(Fields, i + 1, scanField(Fields[i], fields))

\* strings.SplitN(username, "/", 2) on a username that contains "/", and what
\* extractFields does with the two parts
splitUsername(fields, slash) ==
    [fields EXCEPT !.tenant = IF @ = <<>> THEN SubSeq(fields.username, 1, slash) ELSE @,
                   !.username = SubSeq(@, slash + 2, Len(@))]

\* (opi *OPItem) extractFields()
extractFields(opi) ==
    LET fields == scanFields(opi.Fields, 1, [username |-> <<>>, password |-> <<>>, totpSecret |-> <<>>, tenant |-> <<>>])
    IN  IF Contains(fields.username, <<47>>)
        THEN splitUsername(fields, Index(fields.username, <<47>>))
        ELSE fields

\* a field of an item
OPField(id, type, label, value, secret) == [ID |-> id, Type |-> type, Label |-> label, Value |-> value, Secret |-> secret]

\* the username field with a plain name, with tenant and name, with further
\* "/" behind the first, and with nothing before or behind the "/"
UsernameFields ==
    {OPField(<<117, 115, 101, 114, 110, 97, 109, 101>>, <<83, 84, 82, 73, 78, 71>>, <<117, 115, 101, 114, 110, 97, 109, 101>>, v, <<>>) : v \in {<<117>>, <<116, 47, 117>>, <<116, 47, 117, 47, 120>>, <<47, 117>>, <<116, 47>>}}

\* fields labelled as tenant in upper and lower case, one without value, and
\* one whose label only contains the word
TenantFields ==
    {OPField(<<>>, <<83, 84, 82, 73, 78, 71>>, <<84, 101, 110, 97, 110, 116>>, <<84, 49>>, <<>>),
     OPField(<<>>, <<83, 84, 82, 73, 78, 71>>, <<84, 69, 78, 65, 78, 84, 32, 105, 100>>, <<84, 50>>, <<>>),
     OPField(<<>>, <<83, 84, 82, 73, 78, 71>>, <<116, 101, 110, 97, 110, 116>>, <<>>, <<>>),
     OPField(<<>>, <<83, 84, 82, 73, 78, 71>>, <<109, 121, 32, 116, 101, 110, 97, 110, 116>>, <<84, 51>>, <<>>)}

\* items with a username field before or behind up to MaxFields other fields
extractFieldsInputs ==
    {[Fields |-> IF first THEN <<u>> \o rest ELSE rest \o <<u>>] :
        first \in BOOLEAN, u \in UsernameFields,
        rest \in UNION {[1..n -> TenantFields] : n \in 0..MaxFields}}

\* opi.extractFields()
CallExtractFields ==
    /\ fn = "extractFields"
    /\ Returns(extractFields(arg))

(***************************************************************************)
(* The 1Password client (pkg/onepassword/client.go).  1Password itself is  *)
(* a black box: arg.store gives, for every vault that can be named, the    *)
(* exit status of a query on it and the items it holds.                    *)
(***************************************************************************)
\* parseVaultNamesFromString(vaultStr)
parseVaultNamesFromString(vaultStr) ==
    IF vaultStr = <<>> THEN <<>>
    ELSE SelectSeq([i \in 1..Len(SplitComma(vaultStr, 1, <<>>)) |-> TrimSpace(SplitComma(vaultStr, 1, <<>>)[i])], NotEmpty)

\* (opi *OPItem) Skip()
Skip(opi) ==
    IF opi.Category # "LOGIN" THEN TRUE
    ELSE IF Len(opi.URLs) > 0 THEN FALSE
    ELSE SelectSeq(opi.Fields, isURLField) = <<>>

\* the fragment of buildSessionURI
uriFragment(urlSource, urlIndex, allURLs) ==
    IF LabelCount(allURLs, urlSource.Label) > 1
    THEN IF urlSource.Primary THEN extractHostname(urlSource.URL) \o <<45, 112, 114, 105, 109, 97, 114, 121>> ELSE extractHostname(urlSource.URL)
    ELSE IF urlSource.Label # <<>> /\ urlSource.Label # <<119, 101, 98, 115, 105, 116, 101>> THEN urlSource.Label
    ELSE IF urlSource.Primary THEN <<112, 114, 105, 109, 97, 114, 121>>
    ELSE <<117, 114, 108>> \o Itoa(urlIndex + 1)

\* buildSessionURI of the client
buildSessionURI(vaultName, itemTitle, urlSource, urlIndex, totalURLs, allURLs) ==
    IF totalURLs = 1 THEN <<111, 112, 58, 47, 47>> \o vaultName \o <<47>> \o itemTitle
    ELSE <<111, 112, 58, 47, 47>> \o vaultName \o <<47>> \o itemTitle \o <<35>> \o uriFragment(urlSource, urlIndex, allURLs)

\* createSession of the client
createSession(item, fields, vaultName, urlSource, sessionName, sessionURI) ==
    [SessionURI |-> sessionURI, Name |-> sessionName, ItemID |-> item.ID,
     ItemName |-> item.Title, Username |-> fields.username,
     Password |-> fields.password, Tenant |-> fields.tenant,
     Host |-> urlSource.URL, VaultID |-> item.Vault.ID, VaultName |-> vaultName,
     TOTPSecret |-> fields.totpSecret, Tags |-> item.Tags]

\* the name of the vault of an item: vaults[item.Vault.ID] when it is found
vaultNameOf(item, vaults) ==
    IF \E v \in vaults : v.ID = item.Vault.ID
    THEN (CHOOSE v \in vaults : v.ID = item.Vault.ID).Name
    ELSE item.Vault.Name

\* the session of mapToSessions for the URL at index i (0 based);
\* buildSessionName of the client is BuildSessionName
sessionOfURL(item, vaultName, allURLs, i) ==
    createSession(item, extractFields(item), vaultName, allURLs[i + 1],
                  BuildSessionName(item, allURLs[i + 1], i, Len(allURLs), allURLs),
                  buildSessionURI(vaultName, item.Title, allURLs[i + 1], i, Len(allURLs), allURLs))

emptyURL == [URL |-> <<>>, Label |-> <<>>, Primary |-> FALSE, Source |-> "none"]

\* mapToSessions(item, vaults) with allURLs the result of item.collectURLs()
mapToSessions(item, vaults, allURLs) ==
    IF Len(allURLs) = 0
    THEN <<createSession(item, extractFields(item), vaultNameOf(item, vaults), emptyURL, item.Title,
                         buildSessionURI(vaultNameOf(item, vaults), item.Title, emptyURL, 0, 1, <<>>))>>
    ELSE [k \in 1..Len(allURLs) |-> sessionOfURL(item, vaultNameOf(item, vaults), allURLs, k - 1)]

\* mapToSession(item, vaults): mapToSessions never returns an empty list
mapToSession(item, vaults) == mapToSessions(item, vaults, collectURLs(item))[1]

\* the tag check of listFromVault
hasRequiredTag(item, Tags) ==
    Len(Tags) > 0 => \E i \in 1..Len(Tags), j \in 1..Len(item.Tags) : EqualFold(item.Tags[j], Tags[i])

\* the sessions of a list of items
RECURSIVE sessionsOf(_, _, _)
sessionsOf(items, vaults, Tags) ==
    IF items = <<>> THEN <<>>
    ELSE IF Skip(Head(items)) \/ ~hasRequiredTag(Head(items), Tags) THEN sessionsOf(Tail(items), vaults, Tags)
    ELSE mapToSessions(Head(items), vaults, collectURLs(Head(items))) \o sessionsOf(Tail(items), vaults, Tags)

\* the vaults of the store, in the order 1Password lists them
StoreVaults == <<S_A, S_B>>

\* ListVaults(): the vaults that are there
KnownVaults(store) == {[ID |-> ToLower(v), Name |-> v] : v \in {w \in DOMAIN store : store[w].status = 0}}

\* the items of the vaults that are there
AllItems(store) ==
    (IF store[S_A].status = 0 THEN store[S_A].items ELSE <<>>) \o (IF store[S_B].status = 0 THEN store[S_B].items ELSE <<>>)

\* what a query on a vault finds; on no vault, what the vaults that are there
\* hold; exit status 1 on a vault that is not known
Query(store, vaultName) ==
    IF vaultName = <<>> THEN [status |-> 0, items |-> AllItems(store)]
    ELSE IF vaultName \in DOMAIN store THEN store[vaultName]
    ELSE [status |-> 1, items |-> <<>>]

\* the error of a decoder that meets the end of the output of a failed command
E_EOF == <<69, 79, 70>>

\* (c *Client) listFromVault(vaultName)
listFromVault(c, vaultName) ==
    IF Query(c.store, vaultName).status # 0 THEN [sessions |-> <<>>, err |-> E_EOF]
    ELSE [sessions |-> sessionsOf(Query(c.store, vaultName).items, KnownVaults(c.store), c.Tags), err |-> <<>>]

\* the items "op item get" finds for an identifier
Found(store, vaultName, itemIdentifier) ==
    SelectSeq(Query(store, vaultName).items, LAMBDA it : it.ID = itemIdentifier \/ it.Title = itemIdentifier)

E_get_item == <<102, 97, 105, 108, 101, 100, 32, 116, 111, 32, 103, 101, 116, 32, 105, 116, 101, 109, 32, 102, 114, 111, 109, 32, 49, 80, 97, 115, 115, 119, 111, 114, 100, 58, 32, 101, 120, 105, 116, 32, 115, 116, 97, 116, 117, 115, 32>>

\* (c *Client) getItemFromVault(vaultIdentifier, itemIdentifier)
getItemFromVault(c, vaultIdentifier, itemIdentifier) ==
    IF Query(c.store, vaultIdentifier).status # 0
    THEN [session |-> <<>>, err |-> E_get_item \o Itoa(Query(c.store, vaultIdentifier).status)]
    ELSE IF Found(c.store, vaultIdentifier, itemIdentifier) = <<>>
    THEN [session |-> <<>>, err |-> E_get_item \o Itoa(1)]
    ELSE [session |-> mapToSession(Found(c.store, vaultIdentifier, itemIdentifier)[1], KnownVaults(c.store)), err |-> <<>>]

\* a step of a call: it goes on to at, with return value r, locals f and
\* queries calls
Step(at, r, f, calls) ==
    /\ pc' = at
    /\ ret' = r
    /\ frame' = f
    /\ opCalls' = calls
    /\ UNCHANGED <<fn, arg, config, result, stdin, stdout, locals, received,
                   childRead, frameStart, lastOut, pickerCalls>>

\* (c *Client) List() up to its loop: check1Password, the vault names, and
\* the search of all vaults when none is named
CallList ==
    /\ fn = "List"
    /\ pc = "call"
    /\ IF ~arg.signedIn
       THEN Step("return", [sessions |-> <<>>, err |-> E_not_signed_in], frame, opCalls)
       ELSE IF Len(parseVaultNamesFromString(arg.Vault)) = 0
       THEN Step("return", listFromVault(arg, <<>>), frame, Append(opCalls, <<>>))
       ELSE Step("loop", ret, [i |-> 1, allSessions |-> <<>>, lastErr |-> <<>>], opCalls)

\* one round of the loop of List: a vault that fails is logged and left out
ListFromNextVault ==
    /\ fn = "List"
    /\ pc = "loop"
    /\ frame.i <= Len(parseVaultNamesFromString(arg.Vault))
    /\ LET vaultName == parseVaultNamesFromString(arg.Vault)[frame.i]
           r == listFromVault(arg, vaultName)
       IN  Step("loop", ret,
                [frame EXCEPT !.i = @ + 1,
                              !.allSessions = IF r.err # <<>> THEN @ ELSE @ \o r.sessions],
                Append(opCalls, vaultName))

\* the return of List behind its loop
ListReturns ==
    /\ fn = "List"
    /\ pc = "loop"
    /\ frame.i > Len(parseVaultNamesFromString(arg.Vault))
    /\ Step("return", [sessions |-> frame.allSessions, err |-> <<>>], frame, opCalls)

\* (c *Client) GetItem(vaultIdentifier, itemIdentifier) up to its loop
CallGetItem ==
    /\ fn = "GetItem"
    /\ pc = "call"
    /\ IF ~arg.signedIn
       THEN Step("return", [session |-> <<>>, err |-> E_not_signed_in], frame, opCalls)
       ELSE IF Len(parseVaultNamesFromString(arg.Vault)) = 0
       THEN Step("return", getItemFromVault(arg, <<>>, arg.item), frame, Append(opCalls, <<>>))
       ELSE Step("loop", ret, [i |-> 1, allSessions |-> <<>>, lastErr |-> <<>>], opCalls)

\* one round of the loop of GetItem: the first vault that has the item ends
\* the call
GetItemFromNextVault ==
    /\ fn = "GetItem"
    /\ pc = "loop"
    /\ frame.i <= Len(parseVaultNamesFromString(arg.Vault))
    /\ LET vaultName == parseVaultNamesFromString(arg.Vault)[frame.i]
           r == getItemFromVault(arg, vaultName, arg.item)
       IN  IF r.err = <<>>
           THEN Step("return", r, frame, Append(opCalls, vaultName))
           ELSE Step("loop", ret, [frame EXCEPT !.i = @ + 1, !.lastErr = r.err],
                     Append(opCalls, vaultName))

\* an error behind the loop of GetItem that leaves out what it wraps
E_not_found_bare(itemIdentifier, vaultNames, lastErr) ==
    <<105, 116, 101, 109, 32, 39>> \o itemIdentifier \o <<39, 32, 110, 111, 116, 32, 102, 111, 117, 110, 100, 32, 105, 110, 32, 97, 110, 121, 32, 111, 102, 32, 116, 104, 101, 32, 115, 112, 101, 99, 105, 102, 105, 101, 100, 32, 118, 97, 117, 108, 116, 115, 32, 91>> \o Join(vaultNames, <<44, 32>>) \o <<93>>

\* the error of GetItem behind its loop
E_not_found(itemIdentifier, vaultNames, lastErr) ==
    <<105, 116, 101, 109, 32, 39>> \o itemIdentifier \o <<39, 32, 110, 111, 116, 32, 102, 111, 117, 110, 100, 32, 105, 110, 32, 97, 110, 121, 32, 111, 102, 32, 116, 104, 101, 32, 115, 112, 101, 99, 105, 102, 105, 101, 100, 32, 118, 97, 117, 108, 116, 115, 32, 91>> \o Join(vaultNames, <<44, 32>>) \o <<93, 58, 32>> \o lastErr

\* the return of GetItem behind its loop
GetItemNotFound ==
    /\ fn = "GetItem"
    /\ pc = "loop"
    /\ frame.i > Len(parseVaultNamesFromString(arg.Vault))
    /\ Step("return",
            [session |-> <<>>,
             err |-> E_not_found(arg.item, parseVaultNamesFromString(arg.Vault), frame.lastErr)],
            frame, opCalls)

\* items of the store: a login with one URL, a secure note with a URL field,
\* a login with two URLs and a login without URL
OPItem(id, title, category, vault, fields, urls) ==
    [ID |-> id, Title |-> title, Category |-> category, Vault |-> [ID |-> ToLower(vault), Name |-> vault], Fields |-> fields, URLs |-> urls, Tags |-> <<S_c8y>>]

Login1 ==
    OPItem(<<105, 49>>, <<76, 49>>, "LOGIN", S_A, <<OPField(<<117, 115, 101, 114, 110, 97, 109, 101>>, <<83, 84, 82, 73, 78, 71>>, <<117, 115, 101, 114, 110, 97, 109, 101>>, <<117>>, <<>>)>>,
           <<[Label |-> <<>>, Primary |-> TRUE, Href |-> <<104, 116, 116, 112, 115, 58, 47, 47, 97, 46, 105, 111>>]>>)

Note1 ==
    OPItem(<<110, 49>>, <<78, 49>>, "SECURE_NOTE", S_A, <<OPField(<<>>, <<83, 84, 82, 73, 78, 71>>, <<117, 114, 108>>, <<104, 116, 116, 112, 115, 58, 47, 47, 110, 46, 105, 111>>, <<>>)>>, <<>>)

Login2 ==
    OPItem(<<105, 50>>, <<76, 50>>, "LOGIN", S_B, <<OPField(<<117, 115, 101, 114, 110, 97, 109, 101>>, <<83, 84, 82, 73, 78, 71>>, <<117, 115, 101, 114, 110, 97, 109, 101>>, <<116, 47, 117>>, <<>>)>>,
           <<[Label |-> <<112, 114, 111, 100>>, Primary |-> FALSE, Href |-> <<104, 116, 116, 112, 115, 58, 47, 47, 98, 46, 105, 111>>], [Label |-> <<>>, Primary |-> TRUE, Href |-> <<104, 116, 116, 112, 115, 58, 47, 47, 99, 46, 105, 111>>]>>)

Login0 ==
    OPItem(<<105, 48>>, <<76, 48>>, "LOGIN", S_B, <<OPField(<<112, 97, 115, 115, 119, 111, 114, 100>>, <<67, 79, 78, 67, 69, 65, 76, 69, 68>>, <<112, 97, 115, 115, 119, 111, 114, 100>>, <<112>>, <<>>)>>, <<>>)

\* what a vault answers: an exit status, and with status 0 its items
Failed(status) == [status |-> status, items |-> <<>>]
Holds(items) == [status |-> 0, items |-> items]

Stores ==
    {[v \in {S_A, S_B} |-> IF v = S_A THEN a ELSE b] :
        a \in {Failed(1), Holds(<<Login1>>), Holds(<<Note1, Login1>>)},
        b \in {Failed(2), Holds(<<>>), Holds(<<Login2>>), Holds(<<Login0, Login2>>)}}

\* the vault setting: none, one vault, several, a vault that is not there, and
\* blanks and empty entries between the commas
VaultTexts == {<<>>, <<65>>, <<66>>, <<65, 44, 66>>, <<66, 44, 65>>, <<32, 65, 32, 44, 32, 44, 66>>, <<67>>, <<67, 44, 65>>}

ListInputs ==
    [Vault : VaultTexts, Tags : {<<>>, <<<<67, 56, 89>>>>, <<<<120>>>>}, signedIn : BOOLEAN, store : Stores]

GetItemInputs ==
    [Vault : VaultTexts, item : {<<105, 49>>, <<110, 49>>, <<76, 50>>, <<105, 48>>}, signedIn : BOOLEAN, store : Stores]

(***************************************************************************)
(* The vault and item of a one-shot run (RunE of the root command).        *)
(***************************************************************************)
\* getEnvWithFallback(primary, fallback), given the values of the two
\* environment variables
getEnvWithFallback(primary, fallback) == IF primary # <<>> THEN primary ELSE fallback

\* RunE from the environment defaults to the parsed locator: the vault and
\* item the run goes on with, or the error it returns ("invalid URI: " and the
\* error of ParseOPURI)
Target(a, vault, item, parsed) ==
    IF a.uri = <<>> THEN [vault |-> vault, item |-> item, err |-> "nil"]
    ELSE IF parsed.err # "nil" THEN [vault |-> vault, item |-> item, err |-> "invalid URI"]
    ELSE [vault |-> IF vault = <<>> \/ vault = parsed.vault THEN parsed.vault ELSE vault,
          item |-> IF item = <<>> \/ item = parsed.item THEN parsed.item ELSE item,
          err |-> "nil"]

\* --vault, --item and --uri, and the environment variables behind them
TargetInputs ==
    [vault : {<<>>, <<118>>, <<88>>}, item : {<<>>, <<105>>, <<89>>},
     uri : {<<>>, <<111, 112, 58, 47, 47, 118, 47, 105>>, <<111, 112, 58, 47, 47, 118>>, <<118, 47, 105>>},
     C8YOP_VAULT : {<<>>, <<88>>}, CYOP_VAULT : {<<>>, <<118>>},
     C8YOP_ITEM : {<<>>, <<89>>}, CYOP_ITEM : {<<>>, <<105>>}]

\* the step of RunE that settles vault and item
CallTarget ==
    /\ fn = "RunE"
    /\ Returns(Target(arg,
                      IF arg.vault = <<>> THEN getEnvWithFallback(arg.C8YOP_VAULT, arg.CYOP_VAULT) ELSE arg.vault,
                      IF arg.item = <<>> THEN getEnvWithFallback(arg.C8YOP_ITEM, arg.CYOP_ITEM) ELSE arg.item,
                      ParseOPURI(arg.uri)))

InitLib ==
    /\ NoCommand
    /\ ret = <<>>
    /\ frame = <<>>
    /\ opCalls = <<>>
    /\ \/ fn = "FilterSessions" /\ arg \in FilterSessionsInputs
       \/ fn = "MapToSessions" /\ arg \in MapToSessionsInputs
       \/ fn = "FilterMatchingTags" /\ arg \in FilterMatchingTagsInputs
       \/ fn = "collectURLs" /\ arg \in collectURLsInputs
       \/ fn = "ParseOPURI" /\ arg \in ParseOPURIInputs
       \/ fn = "extractFields" /\ arg \in extractFieldsInputs
       \/ fn = "List" /\ arg \in ListInputs
       \/ fn = "GetItem" /\ arg \in GetItemInputs
       \/ fn = "RunE" /\ arg \in TargetInputs

NextLib ==
    \/ CallFilterSessions
    \/ CallMapToSessions
    \/ CallFilterMatchingTags
    \/ CallCollectURLs
    \/ CallParseOPURI
    \/ CallExtractFields
    \/ CallList
    \/ ListFromNextVault
    \/ ListReturns
    \/ CallGetItem
    \/ GetItemFromNextVault
    \/ GetItemNotFound
    \/ CallTarget

SpecLib == InitLib /\ [][NextLib]_vars

\* Execute(): the exit status of the process for what rootCmd.Execute()
\* returned; every non-nil error ends the process with status 1
Execute(e) == IF e = "nil" THEN 0 ELSE 1

TypeOK ==
    /\ mode \in {"native", "cli", "lib"}
    /\ pc \in {"readHeader", "checkLength", "readBody", "unmarshal", "process",
               "populate", "output", "processed", "list", "pick", "done",
               "call", "loop", "return"}
    /\ (pc = "done") = (result # "running")
    /\ (mode = "lib") = (fn # "none")

(***************************************************************************)
(* What the peer sees on standard output.                                  *)
(***************************************************************************)
\* the peer's reading of a stream: the bodies of the complete frames at its
\* start, and the bytes behind them that form no complete frame
RECURSIVE DecodeFrames(_)
DecodeFrames(s) ==
    IF StreamLen(Take(s, 4)) < 4 THEN [frames |-> <<>>, rest |-> s]
    ELSE LET n == Uint32(ToBytes(Take(s, 4)))
             body == Take(Drop(s, 4), n)
         IN  IF StreamLen(body) < n THEN [frames |-> <<>>, rest |-> s]
             ELSE LET d == DecodeFrames(Drop(s, 4 + n))
                  IN  [frames |-> <<body>> \o d.frames, rest |-> d.rest]

\* the reply frames on standard output
Replies == DecodeFrames(stdout).frames

\* a reply body that is an error envelope {"error":...,"type":"error"}
IsErrorEnvelope(b) ==
    LET head == <<123>> \o Quote(K_error) \o <<58, 34>>
        tail == <<34, 44>> \o Member(K_type, Quote(T_error)) \o <<125>>
    IN  /\ Len(b) >= Len(head) + Len(tail)
        /\ SubSeq(b, 1, Len(head)) = head
        /\ SubSeq(b, Len(b) - Len(tail) + 1, Len(b)) = tail

\* what the peer is to see of a session: with reveal unset every secret that
\* is there reads as the placeholder
Shown(s, reveal) ==
    IF reveal THEN s
    ELSE [s EXCEPT !.Password = IF @ # <<>> THEN Mask ELSE @,
                   !.TOTP = IF @ # <<>> THEN Mask ELSE @,
                   !.TOTPSecret = IF @ # <<>> THEN Mask ELSE @]

\* the replies a handler that has seen no frame before gives to a body
FreshReplies(body) ==
    LET u == Unmarshal(body)
        all == [i \in 1..Len(backend) |-> i]
        filtered == FilterSessions(backend, all, u.req.Search)
        codes == [1..Len(filtered) -> {S_code1, S_code2}]
        Populated(c) ==
            [i \in 1..Len(filtered) |->
                LET s == backend[filtered[i]]
                IN  IF s.TOTPSecret # <<>> THEN [s EXCEPT !.TOTP = c[i]] ELSE s]
        Text(ss) ==
            IF Len(ss) = 1 THEN MarshalSession(Shown(ss[1], u.req.Reveal))
            ELSE <<91>>
                 \o Join([i \in 1..Len(ss) |->
                             MarshalSession(Shown(ss[i], u.req.Reveal))], <<44>>)
                 \o <<93>>
    IN  IF u.err # <<>> THEN {MarshalError(E_InvalidJSON \o u.err)}
        ELSE IF u.req.Type = T_test_auth
        THEN {MarshalAuthResult(TRUE, <<>>), MarshalAuthResult(FALSE, E_exit_status)}
        ELSE {MarshalError(E_not_signed_in)}
             \cup (IF backend = <<>>
                   THEN {MarshalError(E_no_vaults \o FormatSlice(EffectiveVaults(u.req))
                                      \o E_and_tags \o FormatSlice(EffectiveTags(u.req)))}
                   ELSE IF filtered = <<>>
                   THEN {MarshalError(E_no_filter \o u.req.Search)}
                   ELSE {Text(Populated(c)) : c \in codes})

(***************************************************************************)
(* Properties of runNativeMessaging.                                       *)
(***************************************************************************)
\* the per-message failure of the frame being handled, <<>> when there is none
PerMessageFailure ==
    IF mode = "native" /\ pc = "unmarshal" /\ Unmarshal(messageBytes).err # <<>>
    THEN E_InvalidJSON \o Unmarshal(messageBytes).err
    ELSE IF mode = "native" /\ pc = "processed" /\ err # <<>> THEN err
    ELSE <<>>

\* C1: a fully read frame whose handling fails (invalid JSON, List fails, no
\* session for the vaults and tags, no session for the search filter) gets
\* exactly one error envelope frame and the loop goes back to reading the next
\* header with no trace of the failed request; the frame read after a failed
\* one gets the reply a fresh handler gives it.
C1_FailureIsAnsweredAndLoopContinues ==
    /\ [][PerMessageFailure # <<>> =>
            /\ stdout' = Cat(stdout, Frame(FromBytes(MarshalError(PerMessageFailure))))
            /\ IsErrorEnvelope(MarshalError(PerMessageFailure))
            /\ stdin' = stdin
            /\ result' = "running"
            /\ pc' = "readHeader"
            /\ req' = ZeroRequest /\ err' = <<>> /\ heap' = <<>>
            /\ sessions' = <<>> /\ filteredSessions' = <<>>]_vars
    /\ [](mode = "native" /\ pc = "readHeader" =>
            /\ DecodeFrames(stdout).rest = <<>>
            /\ Len(Replies) = Len(received)
            /\ \A k \in 2..Len(received) :
                   IsErrorEnvelope(Replies[k - 1]) =>
                       Replies[k] \in FreshReplies(received[k]))

\* a failed frame was answered with an error envelope and the frame after it
\* with a session
C1_Witness ==
    /\ mode = "native" /\ pc = "readHeader" /\ result = "running"
    /\ Len(received) = 2
    /\ Unmarshal(received[1]).err # <<>>
    /\ IsErrorEnvelope(Replies[1])
    /\ Unmarshal(received[2]).err = <<>>
    /\ ~IsErrorEnvelope(Replies[2])

\* C2: a decoded length of 0 or above 1048576 ends the loop with the error
\* "invalid message length", with the input stream exactly 4 bytes behind the
\* start of the frame and standard output as it was; every length from 1 to
\* 1048576 is accepted and the body read begins.
C2_LengthBounds ==
    /\ [][mode = "native" /\ pc = "checkLength" =>
            LET n == Uint32(lengthBytes)
            IN  /\ stdin' = stdin /\ stdout' = stdout
                /\ IF n = 0 \/ n > 1048576
                   THEN pc' = "done" /\ result' = "invalid message length"
                   ELSE pc' = "readBody" /\ result' = "running"
                        /\ messageLength' = n]_vars
    /\ [](result = "invalid message length" =>
            /\ stdin = Drop(frameStart.stdin, 4)
            /\ stdout = frameStart.stdout
            /\ Len(received) = Len(Replies))

\* a length of 1 MiB + 1 was refused with the bytes behind the header unread
C2_Witness ==
    /\ result = "invalid message length"
    /\ messageLength = 1048577
    /\ StreamLen(stdin) = 1048577
    /\ StreamLen(frameStart.stdin) = 1048581

\* C3: the end of the input with no byte of a frame read ends the loop with
\* nil; the end after 1 to 3 header bytes, or before the declared number of
\* body bytes, ends it with an error; nothing is written to standard output
\* for the unfinished frame.
C3_EndOfStream ==
    /\ [][mode = "native" /\ pc = "readHeader" =>
            LET n == StreamLen(stdin)
            IN  /\ stdout' = stdout
                /\ n = 0 => pc' = "done" /\ result' = "nil"
                /\ n \in 1..3 =>
                       pc' = "done" /\ result' = "failed to read message length"
                /\ n >= 4 => pc' = "checkLength" /\ result' = "running"]_vars
    /\ [][mode = "native" /\ pc = "readBody" =>
            LET n == StreamLen(stdin)
            IN  /\ stdout' = stdout
                /\ n < messageLength =>
                       pc' = "done" /\ result' = "failed to read message data"
                /\ n >= messageLength => pc' = "unmarshal" /\ result' = "running"]_vars
    /\ [](mode = "native" /\ pc = "done"
            /\ result \in {"nil", "failed to read message length",
                           "failed to read message data"} =>
            /\ stdout = frameStart.stdout
            /\ Len(Replies) = Len(received)
            /\ stdin = <<>>)

\* the input ended inside a body, after an earlier frame was answered
C3_Witness ==
    /\ mode = "native" /\ result = "failed to read message data"
    /\ Len(received) >= 1
    /\ Len(Replies) = Len(received)
    /\ StreamLen(frameStart.stdin) \in 5..(3 + messageLength)

\* C4: the handler has one request in hand at a time: it reads from the input
\* only when every frame it has read so far has its reply completely on
\* standard output, replies are only ever appended, whenever the handler is
\* back at reading a header or has stopped each fully read frame has exactly
\* one reply frame, and the reply completed last is a reply to the frame read
\* last.
C4_OneAtATime ==
    /\ [][mode = "native" /\ pc \in {"readHeader", "readBody"} =>
            LET d == DecodeFrames(stdout)
            IN  /\ d.rest = <<>>
                /\ Len(d.frames) = Len(received)
                /\ stdout' = stdout]_vars
    /\ [][mode = "native" => Take(stdout', StreamLen(stdout)) = stdout]_vars
    /\ [](mode = "native" /\ pc \in {"readHeader", "done"} =>
            LET d == DecodeFrames(stdout)
                n == Len(received)
            IN  /\ d.rest = <<>>
                /\ Len(d.frames) = n
                /\ n > 0 => d.frames[n] \in FreshReplies(received[n]))

\* two frames were read and answered, a sign-in test and then a query with
\* several matches
C4_Witness ==
    /\ mode = "native" /\ pc = "readHeader"
    /\ Len(received) = 2 /\ Len(Replies) = 2
    /\ Unmarshal(received[1]).req.Type = T_test_auth
    /\ Unmarshal(received[2]).req.Type = <<>>
    /\ Replies[2][1] = 91

(***************************************************************************)
(* Properties of the replies.                                              *)
(***************************************************************************)
\* the frames written since the current iteration of the loop began
RepliesOfIteration == DecodeFrames(Drop(stdout, StreamLen(frameStart.stdout)))

\* the sessions of the vault that match the search text of a request
Matching(search) ==
    LET all == [i \in 1..Len(backend) |-> i]
        f == ToLower(search)
        Hit(i) == \/ Contains(ToLower(backend[i].Name), f)
                  \/ Contains(ToLower(backend[i].ItemName), f)
                  \/ Contains(ToLower(backend[i].Host), f)
    IN  IF search = <<>> THEN all ELSE SelectSeq(all, Hit)

\* C5: the reply to a session query follows the number of matches: with no
\* session from the vault, or none left by the search filter, the request ends
\* in an error, nothing is written before the error envelope and the error
\* envelope is the one frame written for it; with one match the reply is that
\* session as a single object; with several it is one array of all of them in
\* filtered order; picker.Pick is never called.
C5_ReplyShape ==
    /\ [](mode = "native" => pickerCalls = 0)
    /\ [](mode = "native" /\ pc = "processed" /\ req.Type # T_test_auth
            /\ err # E_not_signed_in =>
            LET F == Matching(req.Search)
                d == RepliesOfIteration
                objs == [i \in 1..Len(F) |-> MarshalSession(Shown(heap[F[i]], req.Reveal))]
            IN  /\ d.rest = <<>>
                /\ Len(F) = 0 => err # <<>> /\ d.frames = <<>>
                /\ Len(F) = 1 => err = <<>> /\ d.frames = <<objs[1]>>
                /\ Len(F) > 1 =>
                       /\ err = <<>>
                       /\ d.frames = << <<91>> \o Join(objs, <<44>>) \o <<93>> >>)
    /\ [][mode = "native" /\ pc = "processed" /\ req.Type # T_test_auth
            /\ err # <<>> =>
            LET d == DecodeFrames(Drop(stdout', StreamLen(stdout)))
            IN  /\ d.rest = <<>>
                /\ Len(d.frames) = 1
                /\ IsErrorEnvelope(d.frames[1])]_vars

\* a search that two sessions match was answered with an array
C5_Witness ==
    /\ mode = "native" /\ pc = "processed" /\ err = <<>>
    /\ req.Search # <<>>
    /\ Len(Matching(req.Search)) = 2
    /\ Len(RepliesOfIteration.frames) = 1
    /\ RepliesOfIteration.frames[1][1] = 91

\* the text an output path writes for a list of session values
TextOf(path, ss) ==
    CASE path = "single" -> MarshalSession(ss[1])
      [] path = "array" ->
            <<91>> \o Join([i \in 1..Len(ss) |-> MarshalSession(ss[i])], <<44>>) \o <<93>>
      [] OTHER -> MarshalIndentSession(ss[1])

\* the text an output path of the program writes for the sessions ss
Emit(path, ss, reveal) ==
    LET as == [i \in 1..Len(ss) |-> i]
    IN  CASE path = "single" -> MarshalSession(applyRevealFlag(ss, 1, reveal).out)
          [] path = "array" -> MarshalSessions(RevealAll(ss, as, reveal, 1, <<>>).out)
          [] OTHER -> MarshalIndentSession(outputSessionCopy(ss, 1, reveal).out)

\* the sessions that differ from s at most in the three secret fields, with
\* values taken from vals
SecretVariants(s, vals) ==
    {[s EXCEPT !.Password = p, !.TOTP = t, !.TOTPSecret = x] :
        p \in vals, t \in vals, x \in vals}

\* two sessions with the same secrets present
SamePresence(s, v) ==
    /\ (s.Password = <<>>) = (v.Password = <<>>)
    /\ (s.TOTP = <<>>) = (v.TOTP = <<>>)
    /\ (s.TOTPSecret = <<>>) = (v.TOTPSecret = <<>>)

\* C6 as stated: with reveal unset, a session put in the place of an emitted
\* one and differing from it only in the values of password, TOTP code and
\* TOTP secret (an absent value included) gives the same output; with reveal
\* set the output holds the values of the session.
C6_AnySecretsSerializeAlike ==
    lastOut.path # "none" =>
        IF lastOut.reveal
        THEN lastOut.body = TextOf(lastOut.path, lastOut.src)
        ELSE \A i \in 1..Len(lastOut.src) :
                 \A v \in SecretVariants(lastOut.src[i], {<<>>, S_q, S_code2}) :
                     Emit(lastOut.path, [lastOut.src EXCEPT ![i] = v], FALSE)
                         = lastOut.body

\* C6, amended: with reveal unset every emitted session shows the placeholder
\* *** for each of password, TOTP code and TOTP secret that is not empty and
\* leaves out those that are empty, so a session differing from an emitted one
\* only in the values of secrets that are present in both gives the same
\* output; with reveal set the output holds the values of the session.
C6_PresentSecretsAreMasked ==
    lastOut.path # "none" =>
        IF lastOut.reveal
        THEN lastOut.body = TextOf(lastOut.path, lastOut.src)
        ELSE /\ lastOut.body =
                    TextOf(lastOut.path,
                           [i \in 1..Len(lastOut.src) |-> Shown(lastOut.src[i], FALSE)])
             /\ \A i \in 1..Len(lastOut.src) :
                    \A v \in SecretVariants(lastOut.src[i], {<<>>, S_q, S_code2}) :
                        SamePresence(lastOut.src[i], v) =>
                            Emit(lastOut.path, [lastOut.src EXCEPT ![i] = v], FALSE)
                                = lastOut.body

\* an array was emitted with reveal unset for a session with all three
\* secrets and a session without TOTP secret
C6_Witness ==
    /\ lastOut.path = "array" /\ ~lastOut.reveal
    /\ \E i \in 1..Len(lastOut.src) :
           /\ lastOut.src[i].Password # <<>>
           /\ lastOut.src[i].TOTP # <<>>
           /\ lastOut.src[i].TOTPSecret # <<>>
    /\ \E i \in 1..Len(lastOut.src) :
           lastOut.src[i].Password # <<>> /\ lastOut.src[i].TOTPSecret = <<>>

\* C7: the output step leaves every session object as it was, with either
\* value of reveal and on each output path (applyRevealFlag, the loop of
\* outputSessionsNativeMessaging, outputSessionAsJSON), so revealing a session
\* after it was masked still gives its values.
C7_MaskingLeavesSessionsAlone ==
    /\ [][pc = "output" => heap' = heap]_vars
    /\ [](pc = "output" =>
            \A reveal \in BOOLEAN :
                /\ \A a \in DOMAIN heap :
                       /\ applyRevealFlag(heap, a, reveal).heap = heap
                       /\ outputSessionCopy(heap, a, reveal).heap = heap
                       /\ applyRevealFlag(applyRevealFlag(heap, a, reveal).heap,
                                          a, TRUE).out = heap[a]
                /\ RevealAll(heap, filteredSessions, reveal, 1, <<>>).heap = heap)

\* a session with password and TOTP code was emitted masked and still has
\* its values
C7_Witness ==
    /\ mode = "native" /\ pc = "processed" /\ err = <<>>
    /\ lastOut.path = "single" /\ ~lastOut.reveal
    /\ session # 0
    /\ heap[session].Password = S_p
    /\ heap[session].TOTP \in {S_code1, S_code2}
    /\ heap[session].TOTPSecret = S_s

(***************************************************************************)
(* Properties of the framing.                                              *)
(***************************************************************************)
\* C8: writeNativeMessage on a body of L bytes, 1 <= L <= 1048576, gives
\* 4 + L bytes, the first four being L as a little-endian 32-bit number and
\* the rest the body; the loop reading frames written this way, with nothing
\* else taking bytes off the stream, obtains the bodies that were written, in
\* order, and all of them when it ends on a clean end of the stream.
C8_FramingRoundTrip ==
    /\ \A k \in 1..Len(sent) :
           LET b == sent[k]
               L == StreamLen(b)
               w == writeNativeMessage(<<>>, b, [at |-> "none", k |-> 0])
           IN  /\ L >= 1 /\ L <= 1048576
               /\ w.err = <<>>
               /\ StreamLen(w.out) = 4 + L
               /\ ToBytes(Take(w.out, 4)) =
                      <<L % 256, (L \div 256) % 256, (L \div 65536) % 256,
                        (L \div 16777216) % 256>>
               /\ Drop(w.out, 4) = b
    /\ (mode = "native" /\ childRead = 0) =>
           /\ Len(received) <= Len(sent)
           /\ \A k \in 1..Len(received) : received[k] = sent[k]
           /\ pc = "unmarshal" =>
                  /\ messageBytes = sent[Len(received)]
                  /\ messageLength = StreamLen(messageBytes)
           /\ result = "nil" => Len(received) = Len(sent)

\* two frames, the second with a body of 1 MiB, were read back as written
C8_Witness ==
    /\ mode = "native" /\ childRead = 0 /\ result = "nil"
    /\ Len(sent) = 2
    /\ received = sent
    /\ StreamLen(received[1]) = 20
    /\ StreamLen(received[2]) = 1048576

\* C9 as stated: whenever the loop is about to read a header, or has ended,
\* standard output is a sequence of complete frames, also when writes to it
\* fail part-way.
C9_StdoutIsWholeFrames ==
    (mode = "native" /\ pc \in {"readHeader", "done"}) =>
        DecodeFrames(stdout).rest = <<>>

(***************************************************************************)
(* Properties of the one-shot selection.                                   *)
(***************************************************************************)
\* C10: when List succeeded, an empty batch ends the command with "no
\* sessions found matching tags" and only an empty batch does; a batch none of
\* which passes the filter ends it with "no sessions found matching filter"
\* and only such a batch does; a single session left by the filter is the
\* selected one and picker.Pick is not called; picker.Pick is called, once,
\* exactly when more than one session is left.
C10_OneShotSelection ==
    (mode = "cli" /\ pc # "list" /\ result # "list failed") =>
        LET F == Matching(flags.filter)
        IN  /\ (result = "no sessions found matching tags") = (backend = <<>>)
            /\ (result = "no sessions found matching filter")
                   = (backend # <<>> /\ F = <<>>)
            /\ Len(F) = 1 => pickerCalls = 0 /\ pc # "pick" /\ session = F[1]
            /\ Len(F) = 0 => pickerCalls = 0 /\ pc = "done"
            /\ Len(F) > 1 => pickerCalls = (IF pc = "pick" THEN 0 ELSE 1)

\* of two sessions the filter left one, which was emitted without the picker
C10_Witness ==
    /\ mode = "cli" /\ pc = "done" /\ result = "nil"
    /\ Len(backend) = 2
    /\ Len(Matching(flags.filter)) = 1
    /\ session = Matching(flags.filter)[1]
    /\ lastOut.src = <<heap[session]>>
    /\ pickerCalls = 0

(***************************************************************************)
(* Properties of a cancelled selection.                                    *)
(***************************************************************************)
\* C11 as stated: when more than one session matched and picker.Pick came
\* back without a selection, the command ends without reporting an error: what
\* RunE returns is nil and the process exits with status 0.
C11_CancelIsNotAnError ==
    (mode = "cli" /\ pc = "done" /\ pickerCalls = 1 /\ session = 0
     /\ Len(filteredSessions) > 1 /\ result # "exit 1") =>
        (result = "nil" /\ Execute(result) = 0)

C13_FilterMatchesUsername ==
    (fn = "FilterSessions" /\ pc = "return") =>
        LET f == ToLower(arg.filter)
        IN  IF f = <<>> THEN ret = [i \in 1..Len(arg.sessions) |-> i]
            ELSE \A a \in 1..Len(arg.sessions) :
                    Contains(ToLower(arg.sessions[a].Username), f) =>
                        \E i \in 1..Len(ret) : ret[i] = a

(***************************************************************************)
(* Properties of the session synthesis.                                    *)
(***************************************************************************)
\* C14 as stated: when MapToSessions is given more than one URL and all of
\* them carry the same label, the name of every session it returns contains
\* that label in parentheses.
C14_SharedLabelInName ==
    (/\ fn = "MapToSessions" /\ pc = "return"
     /\ Len(arg.allURLs) > 1
     /\ \A i \in 1..Len(arg.allURLs) : arg.allURLs[i].Label = arg.allURLs[1].Label) =>
        \A i \in 1..Len(ret) :
            Contains(ret[i].Name, <<40>> \o arg.allURLs[1].Label \o <<41>>)

\* C14, amended: when MapToSessions is given more than one URL and all of
\* them carry the same label, the name of session i is the item title followed
\* by " (h)", or by " (h - Primary)" when URL i is primary, where h is taken
\* from URL i: it holds no dot, slash or colon, and it is a piece of the URL,
\* or the first 20 bytes of such a piece followed by "...".
C14_SharedLabelNamedByHost ==
    (/\ fn = "MapToSessions" /\ pc = "return"
     /\ Len(arg.allURLs) > 1
     /\ \A i \in 1..Len(arg.allURLs) : arg.allURLs[i].Label = arg.allURLs[1].Label) =>
        /\ Len(ret) = Len(arg.allURLs)
        /\ \A i \in 1..Len(ret) :
            LET name == ret[i].Name
                u == arg.allURLs[i]
                pre == arg.item.Title \o <<32, 40>>
                post == IF u.Primary THEN <<32, 45, 32, 80, 114, 105, 109, 97, 114, 121, 41>> ELSE <<41>>
                h == SubSeq(name, Len(pre) + 1, Len(name) - Len(post))
                cut == Len(h) = 23 /\ SubSeq(h, 21, 23) = <<46, 46, 46>>
                piece == IF cut THEN SubSeq(h, 1, 20) ELSE h
            IN  /\ Len(name) > Len(pre) + Len(post)
                /\ SubSeq(name, 1, Len(pre)) = pre
                /\ SubSeq(name, Len(name) - Len(post) + 1, Len(name)) = post
                /\ \A k \in 1..Len(piece) : piece[k] \notin {46, 47, 58}
                /\ Contains(u.URL, piece)
                /\ ~cut => \/ Contains(u.URL, piece \o <<46>>)
                           \/ Contains(u.URL, piece \o <<45>>)

\* two URLs under the label "website", the second primary: the sessions are
\* named "A (a)" and "A (a - Primary)"
C14_Witness ==
    /\ fn = "MapToSessions" /\ pc = "return"
    /\ Len(arg.allURLs) = 2
    /\ arg.allURLs[1].Label = <<119, 101, 98, 115, 105, 116, 101>> /\ arg.allURLs[2].Label = <<119, 101, 98, 115, 105, 116, 101>>
    /\ arg.allURLs[1].URL = <<104, 116, 116, 112, 115, 58, 47, 47, 97, 46, 120, 46, 105, 111, 47>>
    /\ arg.allURLs[2].Primary
    /\ ret[1].Name = <<65, 32, 40, 97, 41>>
    /\ ret[2].Name = <<65, 32, 40, 97, 32, 45, 32, 80, 114, 105, 109, 97, 114, 121, 41>>

\* C15 as stated, for URLs that differ from one another: when MapToSessions
\* is given more than one URL and all of them carry the same label, no two of
\* the sessions it returns have the same name.
C15_NamesDistinct ==
    (/\ fn = "MapToSessions" /\ pc = "return"
     /\ Len(arg.allURLs) > 1
     /\ \A i \in 1..Len(arg.allURLs) : arg.allURLs[i].Label = arg.allURLs[1].Label
     /\ \A i, j \in 1..Len(arg.allURLs) :
            i # j => arg.allURLs[i].URL # arg.allURLs[j].URL) =>
        \A i, j \in 1..Len(ret) : i # j => ret[i].Name # ret[j].Name

C17_TagFilter ==
    /\ (fn = "MapToSessions" /\ pc = "return") =>
        LET Low(x) == IF x >= 65 /\ x <= 90 THEN x + 32 ELSE x
            Alike(s, t) == /\ Len(s) = Len(t)
                           /\ \A k \in 1..Len(s) : Low(s[k]) = Low(t[k])
            Asked(t) == \E k \in 1..Len(arg.requestedTags) :
                            Alike(t, arg.requestedTags[k])
            kept == {k \in 1..Len(arg.item.Tags) : Asked(arg.item.Tags[k])}
            Rank(k) == Cardinality({m \in kept : m <= k})
        IN  \A i \in 1..Len(ret) :
                IF arg.requestedTags = <<>>
                THEN ret[i].Tags = arg.item.Tags
                ELSE /\ Len(ret[i].Tags) = Cardinality(kept)
                     /\ \A k \in kept : ret[i].Tags[Rank(k)] = arg.item.Tags[k]
    /\ (fn = "FilterMatchingTags" /\ pc = "return") =>
        FilterMatchingTags(ret, arg.requestedTags) = ret

\* tags "C8Y", "c8y" of the item, "prod", "c8y" requested: both tags of the
\* item are kept as written
C17_Witness ==
    /\ fn = "MapToSessions" /\ pc = "return"
    /\ arg.item.Tags = <<<<67, 56, 89>>, <<99, 56, 121>>>>
    /\ arg.requestedTags = <<<<112, 114, 111, 100>>, <<99, 56, 121>>>>
    /\ Len(ret) = 2
    /\ ret[2].Tags = <<<<67, 56, 89>>, <<99, 56, 121>>>>

\* C18: MapToSessions returns one session for each URL, in the order of the
\* URLs and with the URL as host, and one session without host when there is
\* no URL; the requested tags have no part in the number: an item none of
\* whose tags was asked for gets all its sessions, each without tags.
C18_OneSessionPerURL ==
    (fn = "MapToSessions" /\ pc = "return") =>
        /\ IF arg.allURLs = <<>>
           THEN Len(ret) = 1 /\ ret[1].Host = <<>>
           ELSE /\ Len(ret) = Len(arg.allURLs)
                /\ \A i \in 1..Len(ret) : ret[i].Host = arg.allURLs[i].URL
        /\ (/\ arg.requestedTags # <<>>
            /\ \A k \in 1..Len(arg.item.Tags), m \in 1..Len(arg.requestedTags) :
                   ToLower(arg.item.Tags[k]) # ToLower(arg.requestedTags[m])) =>
               \A i \in 1..Len(ret) : ret[i].Tags = <<>>

\* an item tagged "c8y", "Prod" with two URLs, asked for the tag "x": two
\* sessions, neither with a tag
C18_Witness ==
    /\ fn = "MapToSessions" /\ pc = "return"
    /\ arg.item.Tags = <<<<99, 56, 121>>, <<80, 114, 111, 100>>>>
    /\ arg.requestedTags = <<<<120>>>>
    /\ Len(arg.allURLs) = 2
    /\ Len(ret) = 2
    /\ ret[1].Host = arg.allURLs[1].URL /\ ret[2].Host = arg.allURLs[2].URL
    /\ ret[1].Tags = <<>> /\ ret[2].Tags = <<>>

(***************************************************************************)
(* Properties of the URL collection.                                       *)
(***************************************************************************)
\* C19 as stated: collectURLs returns the entries of the urls array followed
\* by the qualifying fields, with every primary entry ahead of every other
\* entry and the order of discovery kept among the primary entries and among
\* the others, for a list of any length.
C19_PrimaryFirstStable ==
    (fn = "collectURLs" /\ pc = "return") =>
        LET Qualifies(f) ==
                /\ \E k \in 1..Len(f.Value) : f.Value[k] \notin {9, 10, 13, 32}
                /\ \/ ToLower(f.Label) \in {<<119, 101, 98, 115, 105, 116, 101>>, <<117, 114, 108>>}
                   \/ ToLower(f.Type) = <<117, 114, 108>>
            fields == SelectSeq(arg.Fields, Qualifies)
            found == [i \in 1..Len(arg.URLs) |->
                         [URL |-> arg.URLs[i].Href, Label |-> arg.URLs[i].Label,
                          Primary |-> arg.URLs[i].Primary, Source |-> "urls"]]
                     \o [i \in 1..Len(fields) |->
                         [URL |-> fields[i].Value, Label |-> fields[i].Label,
                          Primary |-> FALSE, Source |-> "field"]]
            First(x) == x.Primary
            Rest(x) == ~x.Primary
        IN  ret = SelectSeq(found, First) \o SelectSeq(found, Rest)

(***************************************************************************)
(* Properties of the locator parsing.                                      *)
(***************************************************************************)
\* C20: ParseOPURI returns vault and item without error exactly when the
\* input is "op://", a non-empty vault without "/", "/", and a non-empty
\* item, and then vault and item are those two texts (the item may hold "/");
\* for every other input, which lacks the prefix, the "/" behind the vault,
\* the vault or the item, it returns an error with empty vault and item.
C20_ParseOPURI ==
    (fn = "ParseOPURI" /\ pc = "return") =>
        LET Built(v, i) == <<111, 112, 58, 47, 47>> \o v \o <<47>> \o i
            Wellformed ==
                \E k \in 6..(Len(arg) - 2) :
                    /\ SubSeq(arg, 1, 5) = <<111, 112, 58, 47, 47>>
                    /\ arg[k + 1] = 47
                    /\ \A m \in 6..k : arg[m] # 47
        IN  IF ret.err = "nil"
            THEN /\ ret.vault # <<>> /\ ret.item # <<>>
                 /\ \A m \in 1..Len(ret.vault) : ret.vault[m] # 47
                 /\ arg = Built(ret.vault, ret.item)
            ELSE /\ ret.vault = <<>> /\ ret.item = <<>>
                 /\ ~Wellformed

\* "op://v/i/v" gives vault "v" and item "i/v"
C20_Witness ==
    /\ fn = "ParseOPURI" /\ pc = "return"
    /\ arg = <<111, 112, 58, 47, 47, 118, 47, 105, 47, 118>>
    /\ ret = [vault |-> <<118>>, item |-> <<105, 47, 118>>, err |-> "nil"]

(***************************************************************************)
(* Properties of the populate step.                                        *)
(***************************************************************************)
\* C21 as stated: once populateSessionFromList has run on the chosen session,
\* auto-selected or returned by the picker, that session has the password of
\* the first entry of the unfiltered batch with its item id, and, when the
\* TOTP secret of that entry is non-empty (and well-formed), a TOTP code
\* computed from it.
C21_ChosenSessionIsPopulated ==
    (mode = "cli" /\ pc = "output") =>
        LET chosen == heap[session]
            same == {i \in 1..Len(backend) : backend[i].ItemID = chosen.ItemID}
            first == CHOOSE i \in same : \A j \in same : i <= j
        IN  /\ same # {}
            /\ chosen.Password = backend[first].Password
            /\ (backend[first].TOTPSecret # <<>>
                /\ ValidSecret(backend[first].TOTPSecret)) =>
                   chosen.TOTP \in {S_code1, S_code2}

(***************************************************************************)
(* Properties of the 1Password client.                                     *)
(***************************************************************************)
\* C22 as stated: when Client.List has returned with the user signed in,
\* either (several vaults requested) its result is the sessions of the
\* requested vaults that answered, in the order the vaults were requested,
\* and no error, or (one vault requested and that vault failed) it is an
\* error.
C22_ListVaultFailurePolicy ==
    (fn = "List" /\ pc = "return" /\ arg.signedIn) =>
        LET vaultNames == parseVaultNamesFromString(arg.Vault)
            answered == SelectSeq(vaultNames, LAMBDA v : listFromVault(arg, v).err = <<>>)
        IN  /\ Len(vaultNames) > 1 =>
                /\ ret.err = <<>>
                /\ ret.sessions = Join([i \in 1..Len(answered) |-> listFromVault(arg, answered[i]).sessions], <<>>)
            /\ (Len(vaultNames) = 1 /\ answered = <<>>) => ret.err # <<>>

\* the vaults a GetItem call over several vaults has to ask: the requested
\* vaults up to and including the first one that has the item
RECURSIVE VaultsToTry(_, _, _)
VaultsToTry(c, vaultNames, itemIdentifier) ==
    IF vaultNames = <<>> THEN <<>>
    ELSE IF getItemFromVault(c, Head(vaultNames), itemIdentifier).err = <<>> THEN <<Head(vaultNames)>>
    ELSE <<Head(vaultNames)>> \o VaultsToTry(c, Tail(vaultNames), itemIdentifier)

\* strings.HasSuffix
HasSuffix(s, suffix) == Len(s) >= Len(suffix) /\ SubSeq(s, Len(s) - Len(suffix) + 1, Len(s)) = suffix

\* C23: throughout a GetItem call over a list of vaults, the vaults queried so
\* far are the first ones of the list, in its order, and none is queried
\* behind the first vault that has the item; the call returns the session of
\* that vault, and an error only when every vault failed, and then an error
\* that ends with the failure of the last vault of the list.
C23_GetItemTriesVaultsInOrder ==
    (fn = "GetItem" /\ arg.signedIn /\ parseVaultNamesFromString(arg.Vault) # <<>>) =>
        LET vaultNames == parseVaultNamesFromString(arg.Vault)
            toTry == VaultsToTry(arg, vaultNames, arg.item)
            last == getItemFromVault(arg, toTry[Len(toTry)], arg.item)
        IN  /\ Len(opCalls) <= Len(toTry)
            /\ opCalls = SubSeq(toTry, 1, Len(opCalls))
            /\ pc = "return" =>
                /\ opCalls = toTry
                /\ (ret.err = <<>>) = (last.err = <<>>)
                /\ ret.err = <<>> => ret.session = last.session
                /\ ret.err # <<>> =>
                    /\ toTry = vaultNames
                    /\ ret.session = <<>>
                    /\ Len(ret.err) > Len(last.err)
                    /\ HasSuffix(ret.err, last.err)

\* a call over "C,A" found the item in the second vault, and a call over
\* "A,B" found it in the first and did not ask the second
C23_Witness ==
    /\ fn = "GetItem"
    /\ pc = "return"
    /\ ret.err = <<>>
    /\ \/ arg.Vault = <<67, 44, 65>> /\ opCalls = <<<<67>>, <<65>>>>
       \/ arg.Vault = <<65, 44, 66>> /\ opCalls = <<<<65>>>> /\ arg.store[<<66>>].status = 0

\* the items of a store
StoreItems(store) == UNION {{store[v].items[i] : i \in 1..Len(store[v].items)} : v \in DOMAIN store}

\* a session made from an item of the login category
FromLogin(store, s) == \A item \in StoreItems(store) : item.ID = s.ItemID => item.Category = "LOGIN"

\* C24 as stated: every session Client.List returns (through listFromVault)
\* and every session Client.GetItem returns (through getItemFromVault) is
\* made from an item of the login category.
C24_OnlyLoginItemsBecomeSessions ==
    /\ (fn = "List" /\ pc = "return") =>
           \A i \in 1..Len(ret.sessions) : FromLogin(arg.store, ret.sessions[i])
    /\ (fn = "GetItem" /\ pc = "return" /\ ret.err = <<>>) => FromLogin(arg.store, ret.session)

\* the name the decision table gives the i-th of the URLs (i counted from 1)
NameByTable(title, URLs, i) ==
    IF Len(URLs) = 1 THEN title
    ELSE IF \E j \in 1..Len(URLs) : j # i /\ URLs[j].Label = URLs[i].Label
    THEN title \o <<32, 40>> \o extractHostname(URLs[i].URL) \o (IF URLs[i].Primary THEN <<32, 45, 32, 80, 114, 105, 109, 97, 114, 121, 41>> ELSE <<41>>)
    ELSE IF URLs[i].Label \notin {<<>>, <<119, 101, 98, 115, 105, 116, 101>>}
    THEN title \o <<32, 40>> \o URLs[i].Label \o <<41>>
    ELSE IF URLs[i].Primary THEN title \o <<32, 40, 80, 114, 105, 109, 97, 114, 121, 41>>
    ELSE title \o <<32, 40, 85, 82, 76, 32>> \o <<48 + i>> \o <<41>>

\* C25: the name of every session MapToSessions makes for a URL is the one of
\* the decision table: the title alone for a single URL; else the title with
\* the hostname (and "- Primary") when another URL has the same label; else
\* with the label when it is neither empty nor "website"; else with "Primary"
\* for a primary URL; else with "URL" and the position counted from 1.
C25_NameFollowsTable ==
    (fn = "MapToSessions" /\ pc = "return" /\ Len(arg.allURLs) > 0) =>
        /\ Len(ret) = Len(arg.allURLs)
        /\ \A i \in 1..Len(ret) : ret[i].Name = NameByTable(arg.item.Title, arg.allURLs, i)

\* two URLs with different labels, none a label of its own: the primary one
\* is named "Primary" and the one behind it is numbered 2
C25_Witness ==
    /\ fn = "MapToSessions"
    /\ pc = "return"
    /\ Len(ret) = 2
    /\ ret[1].Name = <<65, 32, 40, 80, 114, 105, 109, 97, 114, 121, 41>>
    /\ ret[2].Name = <<65, 32, 40, 85, 82, 76, 32, 50, 41>>

(***************************************************************************)
(* Properties of URL collection and field extraction.                      *)
(***************************************************************************)
\* a URL field as the documentation defines it: a value that is not empty,
\* and the label "website" or "url" in any case or the type "URL" as written
QualifiesAsURL(field) ==
    /\ field.Value # <<>>
    /\ \/ ToLower(field.Label) \in {<<119, 101, 98, 115, 105, 116, 101>>, <<117, 114, 108>>}
       \/ field.Type = <<85, 82, 76>>

\* C26 as stated: the entries collectURLs takes from fields are the fields
\* with a non-empty value and either the label "website" or "url" (in any
\* case) or the type "URL" (in this case only), in the order of the fields,
\* and none of them is primary.
C26_URLFieldRule ==
    (fn = "collectURLs" /\ pc = "return") =>
        LET fromFields == SelectSeq(ret, LAMBDA u : u.Source = "field")
            qualifying == SelectSeq(arg.Fields, QualifiesAsURL)
        IN  /\ Len(fromFields) = Len(qualifying)
            /\ \A i \in 1..Len(fromFields) :
                /\ fromFields[i].URL = qualifying[i].Value
                /\ fromFields[i].Label = qualifying[i].Label
                /\ ~fromFields[i].Primary

\* a field that names the tenant: a label that starts with "tenant" in any
\* case, and a value
NamesTenant(field) ==
    /\ Len(field.Label) >= 6
    /\ ToLower(SubSeq(field.Label, 1, 6)) = <<116, 101, 110, 97, 110, 116>>
    /\ field.Value # <<>>

\* the position of the first "/" of a text that has one
FirstSlash(s) == CHOOSE k \in 1..Len(s) : s[k] = 47 /\ \A j \in 1..(k - 1) : s[j] # 47

\* C27: the tenant extractFields returns is the value of the first field that
\* names the tenant, whatever fields follow it; a username with "/" is cut at
\* its first "/" once: what is behind it is the username, with every further
\* "/", and what is before it is the tenant when no field names the tenant.
C27_TenantAndUsername ==
    (fn = "extractFields" /\ pc = "return") =>
        LET tenantFields == SelectSeq(arg.Fields, NamesTenant)
            dedicated == IF tenantFields = <<>> THEN <<>> ELSE tenantFields[1].Value
            raw == SelectSeq(arg.Fields, LAMBDA f : f.ID = <<117, 115, 101, 114, 110, 97, 109, 101>>)[1].Value
        IN  IF \E k \in 1..Len(raw) : raw[k] = 47
            THEN /\ ret.username = SubSeq(raw, FirstSlash(raw) + 1, Len(raw))
                 /\ ret.tenant = IF dedicated # <<>> THEN dedicated
                                 ELSE SubSeq(raw, 1, FirstSlash(raw) - 1)
            ELSE /\ ret.username = raw
                 /\ ret.tenant = dedicated

\* a later tenant field and the tenant in the username are both passed over,
\* and the username keeps its second "/"
C27_Witness ==
    /\ fn = "extractFields"
    /\ pc = "return"
    /\ Len(SelectSeq(arg.Fields, NamesTenant)) = 2
    /\ arg.Fields[2].Value = <<84, 50>>
    /\ arg.Fields[3].Value = <<84, 49>>
    /\ ret.tenant = <<84, 50>>
    /\ ret.username = <<117, 47, 120>>

(***************************************************************************)
(* Properties of the effective tags and of the target of a run.            *)
(***************************************************************************)
\* C28 as stated: the tags a query is made with are never an empty list: not
\* those processNativeMessagingRequest takes from the request or from
\* C8YOP_TAGS, and not those parseTags takes from --tags or from C8YOP_TAGS.
C28_EffectiveTagsNotEmpty ==
    /\ (mode = "native" /\ pc = "process" /\ req.Type # T_test_auth) =>
           Len(EffectiveTags(req)) > 0
    /\ mode = "cli" => Len(parseTags(flags.tags, env.tags)) > 0

\* C29 as stated: when --uri is given and parses, the run goes on with the
\* vault and the item of the locator, whatever --vault, --item, C8YOP_VAULT
\* and C8YOP_ITEM say.
C29_URITakesPrecedence ==
    (fn = "RunE" /\ pc = "return" /\ arg.uri # <<>> /\ ParseOPURI(arg.uri).err = "nil") =>
        /\ ret.err = "nil"
        /\ ret.vault = ParseOPURI(arg.uri).vault
        /\ ret.item = ParseOPURI(arg.uri).item

(***************************************************************************)
(* Properties of the inbound stream.                                       *)
(***************************************************************************)
\* C30 as stated: while a request is serviced (session query or test_auth)
\* no byte is taken from the inbound stream, and when the loop comes back to
\* its header read the stream stands behind the frame the iteration read:
\* 4 bytes of header and messageLength bytes of body behind its start.
C30_OnlyTheLoopReadsStdin ==
    [][/\ (mode = "native" /\ pc = "process") => stdin' = stdin
       /\ (mode = "native" /\ pc = "processed" /\ pc' = "readHeader") =>
              stdin' = Drop(frameStart.stdin, 4 + messageLength)]_vars

====
